---- MODULE Spec2Model ----
(***************************************************************************)
(* The CouchDB-backed versioned state database of                          *)
(* core/ledger/kvledger/txmgmt/statedb/statecouchdb/statecouchdb.go:       *)
(* the VersionedDB handle, its cache of committed versions, revisions and  *)
(* values, the key and value codecs and the savepoint protocol, run        *)
(* against a document store that may fail any call.                        *)
(***************************************************************************)
EXTENDS Integers, Sequences, FiniteSets, TLC

(* ------------------------------------------------------------------ *)
(* Bounds of the model.                                                *)
(* ------------------------------------------------------------------ *)

\* A document is written at most MaxRev times.
MaxRev == 2
\* GetStateMultipleKeys and the bulk loaders take at most MaxKeys keys.
MaxKeys == 2
\* An update batch holds at most MaxBatch updates.
MaxBatch == 2
\* The longest namespace and key of the codec checks, in bytes.
MaxLen == 2
\* The callers of GetDBHandle that run concurrently.
MaxCallers == 3
\* The records under an iterator, and the Next and Close calls made on it.
MaxResults == 2
MaxNext == 4
MaxClose == 2

(* ------------------------------------------------------------------ *)
(* Inputs.  Strings are sequences of bytes (namespaces, keys) or of    *)
(* characters (version strings).                                       *)
(* ------------------------------------------------------------------ *)

Namespaces == {<<97>>}
Keys == {<<120>>, <<121>>}
CompositeKeys == [Namespace : Namespaces, Key : Keys]

\* version.Height values; (10,2) has a two-digit block number.
Heights == {[BlockNum |-> 1, TxNum |-> 0], [BlockNum |-> 10, TxNum |-> 2]}
\* A nil *version.Height.
NilHeight == [BlockNum |-> -1, TxNum |-> -1]

\* Raw values.  kind "json": the bytes parse as a JSON object; text is the
\* byte string.  JsonSpaced and JsonCompact are the same JSON object.
JsonCompact == [kind |-> "json", text |-> "{\"n\":1}"]
JsonSpaced == [kind |-> "json", text |-> "{ \"n\": 1 }"]
Binary == [kind |-> "bin", text |-> "\\x00\\x01\\x02"]
\* A nil []byte.
NilValue == [kind |-> "nil", text |-> ""]
\* The JSON text "null", what json.Marshal(nil) yields.
JsonNull == [kind |-> "json", text |-> "null"]
\* An empty, non-nil []byte.
EmptyValue == [kind |-> "bin", text |-> ""]
Values == {JsonCompact, JsonSpaced, Binary}

\* A revision is the store's generation count of a document; the empty
\* revision string is 0.
EmptyRev == 0

(* ------------------------------------------------------------------ *)
(* Composite key codec.                                                *)
(* ------------------------------------------------------------------ *)

compositeKeySep == <<0>>
lastKeyIndicator == 1

constructCompositeKey(ns, key) == ns \o compositeKeySep \o key

\* Index of the first separator byte of s, 0 when there is none.
FirstSep(s) ==
  IF \E i \in 1..Len(s) : s[i] = compositeKeySep[1]
    THEN CHOOSE i \in 1..Len(s) :
           /\ s[i] = compositeKeySep[1]
           /\ \A j \in 1..(i - 1) : s[j] # compositeKeySep[1]
    ELSE 0

\* Index of the last separator byte of s, 0 when there is none.
LastSep(s) ==
  IF \E i \in 1..Len(s) : s[i] = compositeKeySep[1]
    THEN CHOOSE i \in 1..Len(s) :
           /\ s[i] = compositeKeySep[1]
           /\ \A j \in (i + 1)..Len(s) : s[j] # compositeKeySep[1]
    ELSE 0

\* splitCompositeKey cutting at the last separator instead of the first.
splitCompositeKeyLast(compositeKey) ==
  LET i == LastSep(compositeKey)
  IN  IF i = 0
        THEN [panic |-> TRUE, Namespace |-> compositeKey, Key |-> <<>>]
        ELSE [panic |-> FALSE,
              Namespace |-> SubSeq(compositeKey, 1, i - 1),
              Key |-> SubSeq(compositeKey, i + 1, Len(compositeKey))]

\* bytes.SplitN(compositeKey, compositeKeySep, 2); split[1] does not exist
\* (index out of range) when there is no separator: panic is TRUE then.
splitCompositeKey(compositeKey) ==
  LET i == FirstSep(compositeKey)
  IN  IF i = 0
        THEN [panic |-> TRUE, Namespace |-> compositeKey, Key |-> <<>>]
        ELSE [panic |-> FALSE,
              Namespace |-> SubSeq(compositeKey, 1, i - 1),
              Key |-> SubSeq(compositeKey, i + 1, Len(compositeKey))]

Ids == {constructCompositeKey(ck.Namespace, ck.Key) : ck \in CompositeKeys}

\* The end bound with the separator left in place for an empty end key.
compositeEndKeyPlain(namespace, endKey) == constructCompositeKey(namespace, endKey)

\* Lines 293-296 of GetStateRangeScanIterator: the end bound of the scan;
\* for an empty end key the last byte of the encoding, the separator, is
\* replaced by lastKeyIndicator.
compositeEndKey(namespace, endKey) ==
  LET encoded == constructCompositeKey(namespace, endKey)
  IN  IF endKey = <<>>
        THEN [encoded EXCEPT ![Len(encoded)] = lastKeyIndicator]
        ELSE encoded

\* Line 292: the start bound of the scan.
compositeStartKey(namespace, startKey) == constructCompositeKey(namespace, startKey)

(* ------------------------------------------------------------------ *)
(* Version strings.                                                    *)
(* ------------------------------------------------------------------ *)

DigitChars == <<"0", "1", "2", "3", "4", "5", "6", "7", "8", "9">>

DigitValue(c) == (CHOOSE i \in 1..Len(DigitChars) : DigitChars[i] = c) - 1

IsDigit(c) == \E i \in 1..Len(DigitChars) : DigitChars[i] = c

\* fmt's %v of a uint64: its decimal digits.
RECURSIVE FormatUint(_)
FormatUint(n) ==
  IF n < 10
    THEN <<DigitChars[n + 1]>>
    ELSE FormatUint(n \div 10) \o <<DigitChars[(n % 10) + 1]>>

RECURSIVE DigitsValue(_)
DigitsValue(s) ==
  IF s = <<>>
    THEN 0
    ELSE 10 * DigitsValue(SubSeq(s, 1, Len(s) - 1)) + DigitValue(s[Len(s)])

\* strconv.ParseUint(s, 10, 64) with its error dropped: 0 on a syntax error.
ParseUint(s) ==
  IF s = <<>> \/ \E i \in 1..Len(s) : ~IsDigit(s[i])
    THEN 0
    ELSE DigitsValue(s)

\* strings.Split(s, ":")
RECURSIVE SplitColon(_)
SplitColon(s) ==
  IF \E i \in 1..Len(s) : s[i] = ":"
    THEN LET i == CHOOSE k \in 1..Len(s) :
                    s[k] = ":" /\ \A j \in 1..(k - 1) : s[j] # ":"
         IN  <<SubSeq(s, 1, i - 1)>> \o SplitColon(SubSeq(s, i + 1, Len(s)))
    ELSE <<s>>

\* fmt.Sprintf("%v:%v", version.BlockNum, version.TxNum)
FormatVersion(h) == FormatUint(h.BlockNum) \o <<":">> \o FormatUint(h.TxNum)

\* The version parse shared by removeDataWrapper and createVersionFromString:
\* versionArray[1] is out of range when the string holds no ':'.
ParseVersion(encodedVersion) ==
  LET versionArray == SplitColon(encodedVersion)
  IN  IF Len(versionArray) < 2
        THEN [panic |-> TRUE, height |-> NilHeight]
        ELSE [panic |-> FALSE,
              height |-> [BlockNum |-> ParseUint(versionArray[1]),
                          TxNum |-> ParseUint(versionArray[2])]]

createVersionFromString(encodedVersion) == ParseVersion(encodedVersion)

(* ------------------------------------------------------------------ *)
(* Value codec.  A document body (CouchDoc.JSONValue) is the record of *)
(* its JSON fields; an absent field holds its empty value.             *)
(* ------------------------------------------------------------------ *)

dataWrapper == "data"
binaryWrapper == "valueBytes"

\* A nil attachment list.
NilAttachments == <<>>
\* The version field of a body that has none, as fmt's %s prints nil.
NoVersionText == <<"%", "!", "s", "(", "<", "n", "i", "l", ">", ")">>
NoJSON == [id |-> <<>>, rev |-> EmptyRev, version |-> NoVersionText,
           chaincodeid |-> <<>>, data |-> NilValue, deleted |-> FALSE]

\* couchdb.IsJSON: the bytes unmarshal into a JSON object.
IsJSON(value) == value.kind = "json"

\* json.Marshal of a json.RawMessage: the raw text, compacted.
MarshalRaw(value) == IF value = JsonSpaced THEN JsonCompact ELSE value

\* json.Marshal of the decoded data field: null for an absent field, else
\* the object serialised again (compact, keys sorted).
MarshalDecoded(data) ==
  IF data = NilValue THEN JsonNull
  ELSE IF data = JsonSpaced THEN JsonCompact
  ELSE data

addCouchDBFieldsToValue(id, revision, value, chaincodeID, version, deleted) ==
  [id |-> id,
   rev |-> revision,
   version |-> FormatVersion(version),
   chaincodeid |-> IF deleted THEN <<>> ELSE chaincodeID,
   data |-> IF ~deleted /\ value # NilValue THEN MarshalRaw(value) ELSE NilValue,
   deleted |-> deleted]

\* The bytes of the last attachment named binaryWrapper, []byte{} when none.
RECURSIVE AttachmentValue(_)
AttachmentValue(attachments) ==
  IF attachments = <<>>
    THEN EmptyValue
    ELSE IF attachments[Len(attachments)].Name = binaryWrapper
           THEN attachments[Len(attachments)].AttachmentBytes
           ELSE AttachmentValue(SubSeq(attachments, 1, Len(attachments) - 1))

removeDataWrapper(wrappedValue, attachments) ==
  LET returnValue ==
        IF wrappedValue.data = NilValue /\ attachments # NilAttachments
          THEN AttachmentValue(attachments)
          ELSE MarshalDecoded(wrappedValue.data)
      parsed == ParseVersion(wrappedValue.version)
  IN  [panic |-> parsed.panic, Value |-> returnValue, Version |-> parsed.height]

(* ------------------------------------------------------------------ *)
(* The document store behind couchdb.CouchDatabase.                    *)
(* ------------------------------------------------------------------ *)

\* A document the store never held.
NoDoc == [rev |-> EmptyRev, live |-> FALSE, json |-> NoJSON,
          attachments |-> NilAttachments]

NoError == [kind |-> "nil", ID |-> <<>>, Error |-> "", Reason |-> ""]
StoreError(call) == [kind |-> call, ID |-> <<>>, Error |-> "", Reason |-> ""]

\* ReadDoc: absent (doc = FALSE) for a document the store does not hold.
ReadDoc(d, id, fail) ==
  IF fail
    THEN [err |-> StoreError("ReadDoc"), doc |-> FALSE,
          JSONValue |-> NoJSON, Attachments |-> NilAttachments]
    ELSE [err |-> NoError, doc |-> d[id].live,
          JSONValue |-> d[id].json, Attachments |-> d[id].attachments]

\* BatchRetrieve: one row per requested id, in request order; the row of an
\* id the store does not hold has an empty revision and version.
BatchRetrieve(d, keymap, includeDocs, fail) ==
  IF fail
    THEN [err |-> StoreError("BatchRetrieve"), rows |-> <<>>]
    ELSE [err |-> NoError,
          rows |-> [i \in 1..Len(keymap) |->
                      IF d[keymap[i]].live
                        THEN [ID |-> keymap[i], Rev |-> d[keymap[i]].rev,
                              Version |-> d[keymap[i]].json.version,
                              Doc |-> IF includeDocs THEN d[keymap[i]].json
                                      ELSE NoJSON]
                        ELSE [ID |-> keymap[i], Rev |-> EmptyRev,
                              Version |-> <<>>, Doc |-> NoJSON]]]

\* The store takes a write of a live document only with its current
\* revision, and a write of a document it does not hold with no revision
\* (or with the revision of its tombstone).
StoreAccepts(cur, rev) ==
  IF cur.live THEN rev = cur.rev
  ELSE rev = EmptyRev \/ (cur.rev # EmptyRev /\ rev = cur.rev)

StoreWrite(cur, couchDoc) ==
  IF couchDoc.JSONValue.deleted
    THEN [rev |-> cur.rev + 1, live |-> FALSE, json |-> NoJSON,
          attachments |-> NilAttachments]
    ELSE [rev |-> cur.rev + 1, live |-> TRUE,
          json |-> [couchDoc.JSONValue EXCEPT !.rev = cur.rev + 1],
          attachments |-> couchDoc.Attachments]

\* BatchUpdateDocuments: the documents are taken one by one, in order; each
\* is written or refused on its own.  rejected: the ids the store refuses
\* for a reason of its own.
RECURSIVE BatchUpdateDocuments(_, _, _)
BatchUpdateDocuments(d, docs, rejected) ==
  IF docs = <<>>
    THEN [db |-> d, resp |-> <<>>]
    ELSE LET couchDoc == Head(docs)
             id == couchDoc.JSONValue.id
             respDoc ==
               IF id \in rejected
                 THEN [ID |-> id, Ok |-> FALSE, Error |-> "forbidden",
                       Reason |-> "refused by the store"]
               ELSE IF ~StoreAccepts(d[id], couchDoc.JSONValue.rev)
                 THEN [ID |-> id, Ok |-> FALSE, Error |-> "conflict",
                       Reason |-> "Document update conflict."]
               ELSE [ID |-> id, Ok |-> TRUE, Error |-> "", Reason |-> ""]
             d2 == IF respDoc.Ok
                     THEN [d EXCEPT ![id] = StoreWrite(d[id], couchDoc)]
                     ELSE d
             rest == BatchUpdateDocuments(d2, Tail(docs), rejected)
         IN  [db |-> rest.db, resp |-> <<respDoc>> \o rest.resp]

\* EnsureFullCommit: flush is "ok", "err" (the call fails) or "notok" (the
\* call returns, its response says not ok).  Only "ok" flushes.
EnsureFullCommit(uf, flush) ==
  [err |-> IF flush = "err" THEN StoreError("EnsureFullCommit") ELSE NoError,
   Ok |-> flush = "ok",
   unflushed |-> IF flush = "ok" THEN {} ELSE uf]

\* GetDatabaseInfo: the store's change-sequence cursor, an opaque token.
UpdateSeqToken == <<"7", "-", "g">>

GetDatabaseInfo(d, sp, fail) ==
  [err |-> IF fail THEN StoreError("GetDatabaseInfo") ELSE NoError,
   UpdateSeq |-> IF fail THEN <<>> ELSE UpdateSeqToken]

\* The savepoint document the store never held.
NoSavepointJSON == [BlockNum |-> <<>>, TxNum |-> <<>>, UpdateSeq |-> <<>>]
NoSavepoint == [live |-> FALSE, json |-> NoSavepointJSON]

\* SaveDoc(savepointDocID, "", doc): the client looks the current revision
\* up itself, so the write creates or replaces the document.
SaveDoc(sp, json, fail) ==
  IF fail
    THEN [err |-> StoreError("SaveDoc"), savepoint |-> sp]
    ELSE [err |-> NoError, savepoint |-> [live |-> TRUE, json |-> json]]

(* ------------------------------------------------------------------ *)
(* The cache of committed data (CommittedVersions).                    *)
(* ------------------------------------------------------------------ *)

EmptyMap == [ck \in {} |-> ck]
Put(map, k, v) == [x \in (DOMAIN map) \cup {k} |-> IF x = k THEN v ELSE map[x]]

\* Lines 110-115: the three maps as newVersionedDB makes them.
NewCommittedData ==
  [committedVersions |-> EmptyMap, revisionNumbers |-> EmptyMap,
   committedValues |-> EmptyMap]

\* ClearCachedVersions that forgets two of the three maps.
ClearCachedVersionsValuesOnly(cd) == [cd EXCEPT !.committedValues = EmptyMap]

ClearCachedVersions(cd) ==
  [committedVersions |-> EmptyMap, revisionNumbers |-> EmptyMap,
   committedValues |-> EmptyMap]

\* InitKeys that gives the requested keys a nil version and no revision
\* entry.
InitKeysVersionsOnly(cd, keys) ==
  LET requested == {keys[i] : i \in 1..Len(keys)}
  IN  [cd EXCEPT !.committedVersions =
         [ck \in (DOMAIN cd.committedVersions) \cup requested |->
            IF ck \in requested THEN NilHeight ELSE cd.committedVersions[ck]]]

\* Lines 475-488 and 518-531: every requested key gets a nil version and an
\* empty revision.
RECURSIVE InitKeys(_, _)
InitKeys(cd, keys) ==
  IF keys = <<>>
    THEN cd
    ELSE InitKeys([cd EXCEPT
                     !.committedVersions = Put(@, Head(keys), NilHeight),
                     !.revisionNumbers = Put(@, Head(keys), EmptyRev)],
                  Tail(keys))

\* Lines 492-507 (withValues) and 535-546: the rows that carry a version.
\* val is never assigned (UnmarshalJSON(val) fills its receiver from val),
\* so the value stored is the nil slice.
RECURSIVE LoadRows(_, _, _)
LoadRows(res, rows, withValues) ==
  IF rows = <<>> \/ res.panic
    THEN res
    ELSE LET doc == Head(rows)
             split == splitCompositeKey(doc.ID)
             compositeKey == [Namespace |-> split.Namespace, Key |-> split.Key]
             parsed == createVersionFromString(doc.Version)
             val == NilValue
         IN  IF Len(doc.Version) = 0
               THEN LoadRows(res, Tail(rows), withValues)
             ELSE IF split.panic \/ parsed.panic
               THEN [res EXCEPT !.panic = TRUE]
             ELSE LoadRows(
                    [res EXCEPT
                       !.cd.committedVersions = Put(@, compositeKey, parsed.height),
                       !.cd.revisionNumbers = Put(@, compositeKey, doc.Rev),
                       !.cd.committedValues =
                          IF withValues THEN Put(@, compositeKey, val) ELSE @],
                    Tail(rows), withValues)

Keymap(keys) ==
  [i \in 1..Len(keys) |-> constructCompositeKey(keys[i].Namespace, keys[i].Key)]

\* One store call made by a handler: its name, whether it succeeded, the
\* ids it asked for and, for the bulk write, each document's id and _rev
\* beside the revision and liveness the store held for it at that moment;
\* for the bulk retrieve, whether it asked for the documents' bodies.
Call(name, ok, ids, docs) == [call |-> name, ok |-> ok, ids |-> ids, docs |-> docs]

LoadCommittedValues(cd, d, keys, fail) ==
  LET retrieved == BatchRetrieve(d, Keymap(keys), TRUE, fail)
      res == LoadRows([cd |-> InitKeys(cd, keys), panic |-> FALSE],
                      retrieved.rows, TRUE)
  IN  [cd |-> res.cd, panic |-> res.panic,
       log |-> <<Call("BatchRetrieve", ~fail, Keymap(keys),
                       <<[includeDocs |-> TRUE]>>)>>]

LoadCommittedVersions(cd, d, keys, fail) ==
  LET retrieved == BatchRetrieve(d, Keymap(keys), FALSE, fail)
      res == LoadRows([cd |-> InitKeys(cd, keys), panic |-> FALSE],
                      retrieved.rows, FALSE)
  IN  [cd |-> res.cd, panic |-> res.panic,
       log |-> <<Call("BatchRetrieve", ~fail, Keymap(keys),
                       <<[includeDocs |-> FALSE]>>)>>]

(* ------------------------------------------------------------------ *)
(* Reads.                                                              *)
(* ------------------------------------------------------------------ *)

\* A nil *statedb.VersionedValue, and one that points to a value.
NilVersionedValue == [nil |-> TRUE, Value |-> NilValue, Version |-> NilHeight]
VersionedValue(value, version) == [nil |-> FALSE, Value |-> value, Version |-> version]

GetState(cd, d, namespace, key, fail) ==
  LET compositeKeyStruct == [Namespace |-> namespace, Key |-> key]
      compositeKey == constructCompositeKey(namespace, key)
      read == ReadDoc(d, compositeKey, fail)
      unwrapped == removeDataWrapper(read.JSONValue, read.Attachments)
  IN  IF /\ compositeKeyStruct \in DOMAIN cd.committedValues
         /\ compositeKeyStruct \in DOMAIN cd.committedVersions
        THEN [err |-> NoError, panic |-> FALSE, log |-> <<>>,
              vv |-> VersionedValue(cd.committedValues[compositeKeyStruct],
                                    cd.committedVersions[compositeKeyStruct])]
      ELSE IF read.err # NoError
        THEN [err |-> read.err, panic |-> FALSE, vv |-> NilVersionedValue,
              log |-> <<Call("ReadDoc", FALSE, <<compositeKey>>, <<>>)>>]
      ELSE IF ~read.doc
        THEN [err |-> NoError, panic |-> FALSE, vv |-> NilVersionedValue,
              log |-> <<Call("ReadDoc", TRUE, <<compositeKey>>, <<>>)>>]
      ELSE [err |-> NoError, panic |-> unwrapped.panic,
            vv |-> VersionedValue(unwrapped.Value, unwrapped.Version),
            log |-> <<Call("ReadDoc", TRUE, <<compositeKey>>, <<>>)>>]

\* ResolveKeys appending only the values found: a key the store does not
\* hold gets no element.
RECURSIVE ResolveKeysFound(_, _, _, _, _, _)
ResolveKeysFound(cd, d, namespace, keys, i, failAt) ==
  IF i > Len(keys)
    THEN [err |-> NoError, panic |-> FALSE, vals |-> <<>>, log |-> <<>>]
    ELSE LET got == GetState(cd, d, namespace, keys[i], failAt = i)
             rest == ResolveKeysFound(cd, d, namespace, keys, i + 1, failAt)
         IN  IF got.err # NoError \/ got.panic
               THEN [err |-> got.err, panic |-> got.panic, vals |-> <<>>,
                     log |-> got.log]
               ELSE [err |-> rest.err, panic |-> rest.panic,
                     vals |-> IF rest.err # NoError \/ rest.panic THEN <<>>
                              ELSE IF got.vv.nil THEN rest.vals
                              ELSE <<got.vv>> \o rest.vals,
                     log |-> got.log \o rest.log]

\* GetVersion.  The returned version is NilHeight for a nil *version.Height.
\* Line 181 returns (nil, nil) when the point read succeeded; after a read
\* that failed, line 186 dereferences the document the store returned with
\* the error, a nil pointer (panic), and only a non-nil one would have its
\* version decoded (lines 185-206).
GetVersion(cd, d, namespace, key, fail) ==
  LET compositeKey == [Namespace |-> namespace, Key |-> key]
      couchDBCompositeKey == constructCompositeKey(namespace, key)
      read == ReadDoc(d, couchDBCompositeKey, fail)
      readLog == <<Call("ReadDoc", read.err = NoError, <<couchDBCompositeKey>>, <<>>)>>
      versionData == IF read.JSONValue.version = NoVersionText
                       THEN <<>> ELSE read.JSONValue.version
      parsed == ParseVersion(versionData)
  IN  IF compositeKey \in DOMAIN cd.committedVersions
        THEN [err |-> NoError, panic |-> FALSE, log |-> <<>>,
              version |-> cd.committedVersions[compositeKey]]
      ELSE IF read.err = NoError
        THEN [err |-> NoError, panic |-> FALSE, log |-> readLog, version |-> NilHeight]
      ELSE IF ~read.doc
        THEN [err |-> NoError, panic |-> TRUE, log |-> readLog, version |-> NilHeight]
      ELSE IF versionData = <<>>
        THEN [err |-> NoError, panic |-> FALSE, log |-> readLog, version |-> NilHeight]
      ELSE [err |-> NoError, panic |-> parsed.panic, log |-> readLog,
            version |-> parsed.height]

\* Lines 272-280: the keys are resolved in order; the first error ends the
\* loop with no values.  failAt: the position whose point read fails (0: none).
RECURSIVE ResolveKeys(_, _, _, _, _, _)
ResolveKeys(cd, d, namespace, keys, i, failAt) ==
  IF i > Len(keys)
    THEN [err |-> NoError, panic |-> FALSE, vals |-> <<>>, log |-> <<>>]
    ELSE LET got == GetState(cd, d, namespace, keys[i], failAt = i)
             rest == ResolveKeys(cd, d, namespace, keys, i + 1, failAt)
         IN  IF got.err # NoError \/ got.panic
               THEN [err |-> got.err, panic |-> got.panic, vals |-> <<>>,
                     log |-> got.log]
               ELSE [err |-> rest.err, panic |-> rest.panic,
                     vals |-> IF rest.err # NoError \/ rest.panic THEN <<>>
                              ELSE <<got.vv>> \o rest.vals,
                     log |-> got.log \o rest.log]

\* The cache is cleared by the deferred call on every return; a panic in
\* LoadCommittedValues comes before the defer statement.
GetStateMultipleKeys(cd, d, namespace, keys, retrieveFail, failAt) ==
  LET compositeKeys == [i \in 1..Len(keys) |-> [Namespace |-> namespace, Key |-> keys[i]]]
      loaded == LoadCommittedValues(cd, d, compositeKeys, retrieveFail)
      resolved == ResolveKeys(loaded.cd, d, namespace, keys, 1, failAt)
  IN  IF loaded.panic
        THEN [cd |-> loaded.cd, err |-> NoError, panic |-> TRUE, vals |-> <<>>,
              log |-> loaded.log]
        ELSE [cd |-> ClearCachedVersions(loaded.cd), err |-> resolved.err,
              panic |-> resolved.panic, vals |-> resolved.vals,
              log |-> loaded.log \o resolved.log]

(* ------------------------------------------------------------------ *)
(* Savepoint.                                                          *)
(* ------------------------------------------------------------------ *)

savepointDocID == "statedb_savepoint"

\* A savepoint document that leaves the block number at zero.
MarshalSavepointNoBlock(height, updateSeq) ==
  [BlockNum |-> FormatUint(0), TxNum |-> FormatUint(height.TxNum),
   UpdateSeq |-> updateSeq]

\* json.Marshal(couchSavepointData)
MarshalSavepoint(height, updateSeq) ==
  [BlockNum |-> FormatUint(height.BlockNum), TxNum |-> FormatUint(height.TxNum),
   UpdateSeq |-> updateSeq]

\* recordSavepoint without its check of EnsureFullCommit's answer.
recordSavepointUnfenced(d, uf, sp, height, fault) ==
  LET dbResponse == EnsureFullCommit(uf, IF fault = "flush_err" THEN "err"
                                         ELSE IF fault = "flush_notok" THEN "notok"
                                         ELSE "ok")
      dbInfo == GetDatabaseInfo(d, sp, fault = "info")
      savepointDocJSON == MarshalSavepoint(height, dbInfo.UpdateSeq)
      saved == SaveDoc(sp, savepointDocJSON, fault = "save")
  IN  IF dbInfo.err # NoError
        THEN [err |-> dbInfo.err, unflushed |-> dbResponse.unflushed,
              savepoint |-> sp,
              log |-> <<Call("EnsureFullCommit", dbResponse.Ok, <<>>, <<>>),
                        Call("GetDatabaseInfo", FALSE, <<>>, <<>>)>>]
      ELSE [err |-> saved.err, unflushed |-> dbResponse.unflushed,
            savepoint |-> saved.savepoint,
            log |-> <<Call("EnsureFullCommit", dbResponse.Ok, <<>>, <<>>),
                      Call("GetDatabaseInfo", TRUE, <<>>, <<>>),
                      Call("SaveDoc", saved.err = NoError, <<>>, <<>>)>>]

\* recordSavepoint looking only at the error of EnsureFullCommit, not at the
\* Ok of its response.
recordSavepointErrOnly(d, uf, sp, height, fault) ==
  LET dbResponse == EnsureFullCommit(uf, IF fault = "flush_err" THEN "err"
                                         ELSE IF fault = "flush_notok" THEN "notok"
                                         ELSE "ok")
      dbInfo == GetDatabaseInfo(d, sp, fault = "info")
      savepointDocJSON == MarshalSavepoint(height, dbInfo.UpdateSeq)
      saved == SaveDoc(sp, savepointDocJSON, fault = "save")
  IN  IF dbResponse.err # NoError
        THEN [err |-> [kind |-> "Failed to perform full commit", ID |-> <<>>,
                       Error |-> "", Reason |-> ""],
              unflushed |-> dbResponse.unflushed, savepoint |-> sp,
              log |-> <<Call("EnsureFullCommit", FALSE, <<>>, <<>>)>>]
      ELSE IF dbInfo.err # NoError
        THEN [err |-> dbInfo.err, unflushed |-> dbResponse.unflushed,
              savepoint |-> sp,
              log |-> <<Call("EnsureFullCommit", dbResponse.Ok, <<>>, <<>>),
                        Call("GetDatabaseInfo", FALSE, <<>>, <<>>)>>]
      ELSE [err |-> saved.err, unflushed |-> dbResponse.unflushed,
            savepoint |-> saved.savepoint,
            log |-> <<Call("EnsureFullCommit", dbResponse.Ok, <<>>, <<>>),
                      Call("GetDatabaseInfo", TRUE, <<>>, <<>>),
                      Call("SaveDoc", saved.err = NoError, <<>>, <<>>)>>]

\* fault names the store call that fails, "none" when every call succeeds.
recordSavepoint(d, uf, sp, height, fault) ==
  LET dbResponse == EnsureFullCommit(uf, IF fault = "flush_err" THEN "err"
                                         ELSE IF fault = "flush_notok" THEN "notok"
                                         ELSE "ok")
      dbInfo == GetDatabaseInfo(d, sp, fault = "info")
      savepointDocJSON == MarshalSavepoint(height, dbInfo.UpdateSeq)
      saved == SaveDoc(sp, savepointDocJSON, fault = "save")
  IN  IF dbResponse.err # NoError \/ ~dbResponse.Ok
        THEN [err |-> [kind |-> "Failed to perform full commit", ID |-> <<>>,
                       Error |-> "", Reason |-> ""],
              unflushed |-> dbResponse.unflushed, savepoint |-> sp,
              log |-> <<Call("EnsureFullCommit", FALSE, <<>>, <<>>)>>]
      ELSE IF dbInfo.err # NoError
        THEN [err |-> dbInfo.err, unflushed |-> dbResponse.unflushed,
              savepoint |-> sp,
              log |-> <<Call("EnsureFullCommit", TRUE, <<>>, <<>>),
                        Call("GetDatabaseInfo", FALSE, <<>>, <<>>)>>]
      ELSE [err |-> saved.err, unflushed |-> dbResponse.unflushed,
            savepoint |-> saved.savepoint,
            log |-> <<Call("EnsureFullCommit", TRUE, <<>>, <<>>),
                      Call("GetDatabaseInfo", TRUE, <<>>, <<>>),
                      Call("SaveDoc", saved.err = NoError, <<>>, <<>>)>>]

\* json.Unmarshal into couchSavepointData
UnmarshalSavepoint(json) ==
  [BlockNum |-> DigitsValue(json.BlockNum), TxNum |-> DigitsValue(json.TxNum)]

\* GetLatestSavePoint with the two numbers of the height exchanged.
GetLatestSavePointSwapped(sp, fail) ==
  IF fail
    THEN [err |-> StoreError("ReadDoc"), height |-> NilHeight]
  ELSE IF ~sp.live
    THEN [err |-> NoError, height |-> NilHeight]
  ELSE [err |-> NoError,
        height |-> [BlockNum |-> UnmarshalSavepoint(sp.json).TxNum,
                    TxNum |-> UnmarshalSavepoint(sp.json).BlockNum]]

GetLatestSavePoint(sp, fail) ==
  IF fail
    THEN [err |-> StoreError("ReadDoc"), height |-> NilHeight]
  ELSE IF ~sp.live
    THEN [err |-> NoError, height |-> NilHeight]
  ELSE [err |-> NoError, height |-> UnmarshalSavepoint(sp.json)]

(* ------------------------------------------------------------------ *)
(* ApplyUpdates.  batch maps the touched composite keys to their       *)
(* VersionedValue (a nil Value deletes); order is the order in which   *)
(* the two loops over the batch happen to visit the keys.              *)
(* ------------------------------------------------------------------ *)

\* MissingKeys that takes every key of the batch for missing.
MissingKeysAll(cd, order) == order

\* MissingKeys that never finds a key missing.
MissingKeysNone(cd, order) == <<>>

\* Lines 343-358: the keys of the batch with no entry in revisionNumbers.
MissingKeys(cd, order) ==
  SelectSeq(order, LAMBDA ck : ck \notin DOMAIN cd.revisionNumbers)

\* Line 383: a Go map yields the empty string for a key it does not hold.
CachedRevision(cd, ck) ==
  IF ck \in DOMAIN cd.revisionNumbers THEN cd.revisionNumbers[ck] ELSE EmptyRev

\* Lines 385-408: the document and attachments built for one update.
BuildCouchDoc(ns, k, vv, revision) ==
  LET compositeKey == constructCompositeKey(ns, k)
  IN  IF vv.Value = NilValue
        THEN [JSONValue |-> addCouchDBFieldsToValue(compositeKey, revision, NilValue,
                                                    ns, vv.Version, TRUE),
              Attachments |-> NilAttachments]
      ELSE IF IsJSON(vv.Value)
        THEN [JSONValue |-> addCouchDBFieldsToValue(compositeKey, revision, vv.Value,
                                                    ns, vv.Version, FALSE),
              Attachments |-> NilAttachments]
      ELSE [JSONValue |-> addCouchDBFieldsToValue(compositeKey, revision, NilValue,
                                                  ns, vv.Version, FALSE),
            Attachments |-> <<[Name |-> binaryWrapper,
                               ContentType |-> "application/octet-stream",
                               AttachmentBytes |-> vv.Value]>>]

\* FirstNotOk without its look at the responses: every bulk write that
\* returns counts as written.
FirstNotOkUnchecked(batchUpdateResp) == NoError

\* FirstNotOk without its return inside the loop: the last response that is
\* not ok makes the error.
FirstNotOkLast(batchUpdateResp) ==
  IF \E i \in 1..Len(batchUpdateResp) : ~batchUpdateResp[i].Ok
    THEN LET i == CHOOSE k \in 1..Len(batchUpdateResp) :
                    /\ ~batchUpdateResp[k].Ok
                    /\ \A j \in (k + 1)..Len(batchUpdateResp) : batchUpdateResp[j].Ok
         IN  [kind |-> "Error occurred while saving document",
              ID |-> batchUpdateResp[i].ID,
              Error |-> batchUpdateResp[i].Error,
              Reason |-> batchUpdateResp[i].Reason]
    ELSE NoError

\* Lines 423-436: the error made from the first response that is not ok.
FirstNotOk(batchUpdateResp) ==
  IF \E i \in 1..Len(batchUpdateResp) : ~batchUpdateResp[i].Ok
    THEN LET i == CHOOSE k \in 1..Len(batchUpdateResp) :
                    /\ ~batchUpdateResp[k].Ok
                    /\ \A j \in 1..(k - 1) : batchUpdateResp[j].Ok
         IN  [kind |-> "Error occurred while saving document",
              ID |-> batchUpdateResp[i].ID,
              Error |-> batchUpdateResp[i].Error,
              Reason |-> batchUpdateResp[i].Reason]
    ELSE NoError

\* What the bulk write submits: each document's id and _rev, beside the
\* revision and liveness the store holds for it at that moment and the
\* store's answer for it (FALSE throughout when the call itself fails).
Submitted(d, docs, resp) ==
  [i \in 1..Len(docs) |->
     [id |-> docs[i].JSONValue.id, rev |-> docs[i].JSONValue.rev,
      cur |-> d[docs[i].JSONValue.id].rev, live |-> d[docs[i].JSONValue.id].live,
      ok |-> i <= Len(resp) /\ resp[i].Ok,
      error |-> IF i <= Len(resp) THEN resp[i].Error ELSE "",
      reason |-> IF i <= Len(resp) THEN resp[i].Reason ELSE ""]]

\* env: retrieveErr (the bulk retrieve fails), fault (the later store call
\* that fails: "bulk", "flush_err", "flush_notok", "info", "save" or "none")
\* and rejected (the ids the store refuses in the bulk write).
ApplyUpdates(cd, d, uf, sp, batch, order, height, env) ==
  LET missingKeys == MissingKeys(cd, order)
      loaded == IF Len(missingKeys) > 0
                  THEN LoadCommittedVersions(cd, d, missingKeys, env.retrieveErr)
                  ELSE [cd |-> cd, panic |-> FALSE, log |-> <<>>]
      batchUpdateDocs ==
        [i \in 1..Len(order) |->
           BuildCouchDoc(order[i].Namespace, order[i].Key, batch[order[i]],
                         CachedRevision(loaded.cd, order[i]))]
      written == BatchUpdateDocuments(d, batchUpdateDocs, env.rejected)
      bulkLog == Call("BatchUpdateDocuments", env.fault # "bulk",
                      [i \in 1..Len(order) |-> batchUpdateDocs[i].JSONValue.id],
                      Submitted(d, batchUpdateDocs,
                                IF env.fault = "bulk" THEN <<>> ELSE written.resp))
      respErr == FirstNotOk(written.resp)
      touched == {written.resp[i].ID : i \in {j \in 1..Len(written.resp) : written.resp[j].Ok}}
      saved == recordSavepoint(written.db, uf \cup touched, sp, height, env.fault)
      nothing == [cd |-> ClearCachedVersions(loaded.cd), db |-> d, unflushed |-> uf,
                  savepoint |-> sp, err |-> NoError, panic |-> FALSE,
                  log |-> loaded.log,
                  tokens |-> DOMAIN loaded.cd.revisionNumbers]
  IN  IF loaded.panic
        THEN [nothing EXCEPT !.panic = TRUE]
      ELSE IF Len(batchUpdateDocs) = 0
        THEN LET only == recordSavepoint(d, uf, sp, height, env.fault)
             IN  [nothing EXCEPT !.unflushed = only.unflushed,
                                 !.savepoint = only.savepoint,
                                 !.err = only.err,
                                 !.log = loaded.log \o only.log]
      ELSE IF env.fault = "bulk"
        THEN [nothing EXCEPT !.err = StoreError("BatchUpdateDocuments"),
                             !.log = loaded.log \o <<bulkLog>>]
      ELSE IF respErr # NoError
        THEN [nothing EXCEPT !.db = written.db,
                             !.unflushed = uf \cup touched,
                             !.err = respErr,
                             !.log = loaded.log \o <<bulkLog>>]
      ELSE [nothing EXCEPT !.db = written.db,
                           !.unflushed = saved.unflushed,
                           !.savepoint = saved.savepoint,
                           !.err = saved.err,
                           !.log = loaded.log \o <<bulkLog>> \o saved.log]

(* ------------------------------------------------------------------ *)
(* State.                                                              *)
(* ------------------------------------------------------------------ *)

VARIABLES
  db,             \* the store's data documents, by id
  unflushed,      \* the ids written since the last full commit
  savepoint,      \* the store's savepoint document
  committedData,  \* vdb.committedData
  ret,            \* the call the caller is being answered: arguments and outcome
  databases,      \* provider.databases: the handle registered for each name
  mux,            \* provider.mux: the caller that holds it, NoCaller when free
  handles,        \* the VersionedDB objects constructed so far: their names
  callers,        \* each concurrent caller of GetDBHandle: position and locals
  scan,           \* an iterator and the Next calls its caller has made
  units           \* the work units running interleaved on the handle

\* The variables the calls of one caller on the handle do not touch.
otherVars == <<databases, mux, handles, callers, scan, units>>

vars == <<db, unflushed, savepoint, committedData, ret, otherVars>>

\* No call is being answered: the caller is free to make the next one.
NoCall ==
  [op |-> "none", namespace |-> <<>>, keys |-> <<>>, batch |-> EmptyMap,
   height |-> NilHeight, err |-> NoError, panic |-> FALSE,
   vals |-> <<>>, log |-> <<>>,
   \* a call of a codec function: its arguments and its result
   args |-> <<>>, result |-> <<>>,
   \* ApplyUpdates: the keys with an entry in revisionNumbers once the
   \* missing keys were loaded
   tokens |-> {},
   \* the state the call started in: the cached keys, the store's documents
   \* and its savepoint
   cachedBefore |-> {}, dbBefore |-> [id \in Ids |-> NoDoc],
   savepointBefore |-> NoSavepoint]

\* provider.mux held by nobody; a nil *VersionedDB.
NoCaller == 0
NoHandle == 0

\* No provider, iterator or interleaved work unit is there.
NoOthers ==
  /\ databases = EmptyMap
  /\ mux = NoCaller
  /\ handles = <<>>
  /\ callers = EmptyMap
  /\ scan = EmptyMap
  /\ units = EmptyMap

\* A handle fresh from newVersionedDB on an empty database.
NewHandle ==
  /\ db = [id \in Ids |-> NoDoc]
  /\ unflushed = {}
  /\ savepoint = NoSavepoint
  /\ committedData = NewCommittedData
  /\ ret = NoCall

Init == NewHandle /\ NoOthers

\* The sequences of at most n elements of S.
RECURSIVE SeqsUpTo(_, _)
SeqsUpTo(S, n) ==
  IF n = 0 THEN {<<>>}
  ELSE LET shorter == SeqsUpTo(S, n - 1)
       IN  shorter \cup {Append(q, x) : q \in shorter, x \in S}

\* The orders in which a set can be visited.
RECURSIVE Orders(_)
Orders(S) ==
  IF S = {} THEN {<<>>}
  ELSE UNION {{<<x>> \o q : q \in Orders(S \ {x})} : x \in S}

\* The batches of at most MaxBatch updates whose values are drawn from
\* values (NilValue deletes), all at one version of versions.
Batches(values, versions) ==
  UNION {UNION {[S -> [Value : values, Version : {v}]] : v \in versions} :
           S \in {T \in SUBSET CompositeKeys : Cardinality(T) <= MaxBatch}}

BatchIds(batch) == {constructCompositeKey(ck.Namespace, ck.Key) : ck \in DOMAIN batch}

NoFault == [retrieveErr |-> FALSE, fault |-> "none", rejected |-> {}]

\* What the store can do to one ApplyUpdates: one call fails (the calls
\* after a failed one are never made), or the store refuses some documents.
ApplyEnvs(batch) ==
  {e \in [retrieveErr : BOOLEAN,
          fault : {"none", "bulk", "flush_err", "flush_notok", "info", "save"},
          rejected : SUBSET BatchIds(batch)] :
     /\ e.rejected # {} => e.fault = "none" /\ ~e.retrieveErr
     /\ e.retrieveErr => e.fault = "none"}

(* ------------------------------------------------------------------ *)
(* Actions: one per call on the handle.  A call is made when the       *)
(* caller holds no unanswered call; Return hands the answer over.      *)
(* ------------------------------------------------------------------ *)

LoadCommittedVersionsCall ==
  /\ ret = NoCall
  /\ UNCHANGED otherVars
  /\ \E keys \in SeqsUpTo(CompositeKeys, MaxKeys), fail \in BOOLEAN :
       \E r \in {LoadCommittedVersions(committedData, db, keys, fail)} :
         /\ committedData' = r.cd
         /\ ret' = [NoCall EXCEPT !.op = "LoadCommittedVersions", !.keys = keys,
                                  !.panic = r.panic, !.log = r.log,
                                  !.cachedBefore = DOMAIN committedData.revisionNumbers,
                                  !.dbBefore = db, !.savepointBefore = savepoint]
         /\ UNCHANGED <<db, unflushed, savepoint>>

LoadCommittedValuesCall ==
  /\ ret = NoCall
  /\ UNCHANGED otherVars
  /\ \E keys \in SeqsUpTo(CompositeKeys, MaxKeys), fail \in BOOLEAN :
       \E r \in {LoadCommittedValues(committedData, db, keys, fail)} :
         /\ committedData' = r.cd
         /\ ret' = [NoCall EXCEPT !.op = "LoadCommittedValues", !.keys = keys,
                                  !.panic = r.panic, !.log = r.log,
                                  !.cachedBefore = DOMAIN committedData.revisionNumbers,
                                  !.dbBefore = db, !.savepointBefore = savepoint]
         /\ UNCHANGED <<db, unflushed, savepoint>>

ClearCachedVersionsCall ==
  /\ ret = NoCall
  /\ UNCHANGED otherVars
  /\ committedData' = ClearCachedVersions(committedData)
  /\ ret' = [NoCall EXCEPT !.op = "ClearCachedVersions",
                           !.cachedBefore = DOMAIN committedData.revisionNumbers,
                                  !.dbBefore = db, !.savepointBefore = savepoint]
  /\ UNCHANGED <<db, unflushed, savepoint>>

GetStateCall ==
  /\ ret = NoCall
  /\ UNCHANGED otherVars
  /\ \E namespace \in Namespaces, key \in Keys, fail \in BOOLEAN :
       \E r \in {GetState(committedData, db, namespace, key, fail)} :
         /\ ret' = [NoCall EXCEPT !.op = "GetState", !.namespace = namespace,
                                  !.keys = <<key>>, !.err = r.err, !.panic = r.panic,
                                  !.vals = <<r.vv>>, !.log = r.log,
                                  !.cachedBefore = DOMAIN committedData.revisionNumbers,
                                  !.dbBefore = db, !.savepointBefore = savepoint]
         /\ UNCHANGED <<db, unflushed, savepoint, committedData>>

GetVersionCall ==
  /\ ret = NoCall
  /\ UNCHANGED otherVars
  /\ \E namespace \in Namespaces, key \in Keys, fail \in BOOLEAN :
       \E r \in {GetVersion(committedData, db, namespace, key, fail)} :
         /\ ret' = [NoCall EXCEPT !.op = "GetVersion", !.namespace = namespace,
                                  !.keys = <<key>>, !.err = r.err, !.panic = r.panic,
                                  !.height = r.version, !.log = r.log,
                                  !.cachedBefore = DOMAIN committedData.revisionNumbers,
                                  !.dbBefore = db, !.savepointBefore = savepoint]
         /\ UNCHANGED <<db, unflushed, savepoint, committedData>>

GetStateMultipleKeysCall ==
  /\ ret = NoCall
  /\ UNCHANGED otherVars
  /\ \E namespace \in Namespaces, keys \in SeqsUpTo(Keys, MaxKeys),
        retrieveFail \in BOOLEAN :
       \E failAt \in 0..Len(keys) :
         \E r \in {GetStateMultipleKeys(committedData, db, namespace, keys,
                                        retrieveFail, failAt)} :
           /\ committedData' = r.cd
           /\ ret' = [NoCall EXCEPT !.op = "GetStateMultipleKeys",
                                    !.namespace = namespace, !.keys = keys,
                                    !.err = r.err, !.panic = r.panic, !.vals = r.vals,
                                    !.log = r.log,
                                    !.cachedBefore = DOMAIN committedData.revisionNumbers,
                                  !.dbBefore = db, !.savepointBefore = savepoint]
           /\ UNCHANGED <<db, unflushed, savepoint>>

\* batches: the batches the caller may apply; heights: the heights it may
\* apply them at; faulty: whether the store may fail or refuse during the
\* call.
ApplyUpdatesCall(batches, heights, faulty) ==
  /\ ret = NoCall
  /\ UNCHANGED otherVars
  /\ \E batch \in batches, height \in heights :
       \E order \in Orders(DOMAIN batch),
          env \in IF faulty THEN ApplyEnvs(batch) ELSE {NoFault} :
         /\ \A id \in BatchIds(batch) : db[id].rev < MaxRev
         /\ \E r \in {ApplyUpdates(committedData, db, unflushed, savepoint, batch,
                                   order, height, env)} :
              /\ db' = r.db
              /\ unflushed' = r.unflushed
              /\ savepoint' = r.savepoint
              /\ committedData' = r.cd
              /\ ret' = [NoCall EXCEPT !.op = "ApplyUpdates", !.batch = batch,
                                       !.height = height, !.err = r.err,
                                       !.panic = r.panic, !.log = r.log,
                                       !.tokens = r.tokens,
                                       !.cachedBefore = DOMAIN committedData.revisionNumbers,
                                  !.dbBefore = db, !.savepointBefore = savepoint]

GetLatestSavePointCall ==
  /\ ret = NoCall
  /\ UNCHANGED otherVars
  /\ \E fail \in BOOLEAN :
       \E r \in {GetLatestSavePoint(savepoint, fail)} :
         /\ ret' = [NoCall EXCEPT !.op = "GetLatestSavePoint", !.height = r.height,
                                  !.err = r.err,
                                  !.cachedBefore = DOMAIN committedData.revisionNumbers,
                                  !.dbBefore = db, !.savepointBefore = savepoint]
         /\ UNCHANGED <<db, unflushed, savepoint, committedData>>

Return ==
  /\ ret # NoCall
  /\ UNCHANGED otherVars
  /\ ret' = NoCall
  /\ UNCHANGED <<db, unflushed, savepoint, committedData>>

(* ------------------------------------------------------------------ *)
(* Spec: the commit protocol.  One writer loads versions, applies      *)
(* batches of binary values and deletes against a store that may fail  *)
(* any call, and reads the savepoint.                                  *)
(* ------------------------------------------------------------------ *)

\* Every update of a batch carries the version (10,2).
ProtocolBatches ==
  Batches({Binary, NilValue}, {[BlockNum |-> 10, TxNum |-> 2]})

Next ==
  \/ LoadCommittedVersionsCall
  \/ ClearCachedVersionsCall
  \/ ApplyUpdatesCall(ProtocolBatches, Heights, TRUE)
  \/ GetLatestSavePointCall
  \/ Return

Spec == Init /\ [][Next]_vars

(* ------------------------------------------------------------------ *)
(* SpecData: values and reads.  One writer applies, at height (10,2),   *)
(* batches of JSON and binary values and deletes at either version     *)
(* against a store whose writes succeed, and reads them back one key   *)
(* or several at a time against a store whose reads may fail.          *)
(* ------------------------------------------------------------------ *)

DataBatches == Batches({JsonSpaced, Binary, NilValue}, Heights)

NextData ==
  \/ ApplyUpdatesCall(DataBatches, {[BlockNum |-> 10, TxNum |-> 2]}, FALSE)
  \/ LoadCommittedValuesCall
  \/ GetStateCall
  \/ GetVersionCall
  \/ GetStateMultipleKeysCall
  \/ Return

SpecData == Init /\ [][NextData]_vars

(* ------------------------------------------------------------------ *)
(* SpecCache: every call that reads or writes the cache, in any order, *)
(* the bulk retrieves and point reads failing or not.                  *)
(* ------------------------------------------------------------------ *)

NextCache ==
  \/ LoadCommittedVersionsCall
  \/ LoadCommittedValuesCall
  \/ ClearCachedVersionsCall
  \/ GetStateCall
  \/ GetVersionCall
  \/ GetStateMultipleKeysCall
  \/ ApplyUpdatesCall(ProtocolBatches, {[BlockNum |-> 10, TxNum |-> 2]}, FALSE)
  \/ Return

SpecCache == Init /\ [][NextCache]_vars

(* ------------------------------------------------------------------ *)
(* SpecCodec: the codec functions on their own.  Init draws one call   *)
(* and its arguments; the action of the function called applies it.   *)
(* ------------------------------------------------------------------ *)

\* Byte strings of at most MaxLen bytes.
CodecNamespaces == SeqsUpTo({1, 97}, MaxLen)
CodecKeys == SeqsUpTo({0, 1, 97}, MaxLen)

\* Version strings as a document may hold them: well formed, with a part
\* that is no number, with an empty part, without ':', empty, and absent.
VersionTexts ==
  {<<"1", ":", "0">>, <<"1", "0", ":", "2">>, <<"1", ":", "x">>, <<"x", ":", "2">>,
   <<"x", ":", "y">>, <<":">>, <<"1", ":">>, <<"7">>, <<"x">>, <<>>, NoVersionText}

CodecValues == {JsonCompact, JsonSpaced, Binary, EmptyValue}
CodecHeights == Heights \cup {[BlockNum |-> 0, TxNum |-> 0]}

NoArgs ==
  [fn |-> "none", namespace |-> <<>>, key |-> <<>>, endKey |-> <<>>,
   text |-> <<>>, value |-> NilValue, height |-> NilHeight]

CodecCalls ==
  {[NoArgs EXCEPT !.fn = "splitCompositeKey", !.namespace = ns, !.key = k] :
     ns \in CodecNamespaces, k \in CodecKeys}
  \cup {[NoArgs EXCEPT !.fn = "GetStateRangeScanIterator", !.namespace = ns,
                       !.key = k, !.endKey = e] :
          ns \in CodecNamespaces, k \in {<<>>, <<97>>}, e \in {<<>>, <<97>>}}
  \cup {[NoArgs EXCEPT !.fn = f, !.text = t] :
          f \in {"removeDataWrapper", "createVersionFromString"}, t \in VersionTexts}
  \cup {[NoArgs EXCEPT !.fn = "BuildCouchDoc", !.namespace = <<97>>, !.key = <<120>>,
                       !.value = v, !.height = h] :
          v \in CodecValues, h \in CodecHeights}

InitCodec ==
  /\ db = [id \in Ids |-> NoDoc]
  /\ unflushed = {}
  /\ savepoint = NoSavepoint
  /\ committedData = NewCommittedData
  /\ NoOthers
  /\ \E call \in CodecCalls : ret = [NoCall EXCEPT !.op = "pending", !.args = call]

\* The drawn call of fn is answered with result.
Answer(fn, result) ==
  /\ ret.op = "pending"
  /\ ret.args.fn = fn
  /\ ret' = [ret EXCEPT !.op = fn, !.result = result]
  /\ UNCHANGED <<db, unflushed, savepoint, committedData, otherVars>>

\* The document identifier is built and split again.
SplitCompositeKeyCall ==
  Answer("splitCompositeKey",
         splitCompositeKey(constructCompositeKey(ret.args.namespace, ret.args.key)))

\* The bounds GetStateRangeScanIterator hands to ReadDocRange.
RangeBoundsCall ==
  Answer("GetStateRangeScanIterator",
         [start |-> compositeStartKey(ret.args.namespace, ret.args.key),
          end |-> compositeEndKey(ret.args.namespace, ret.args.endKey)])

\* A document body whose version field holds the drawn text is unwrapped.
RemoveDataWrapperCall ==
  Answer("removeDataWrapper",
         removeDataWrapper([NoJSON EXCEPT !.version = ret.args.text,
                                          !.data = JsonCompact],
                           NilAttachments))

CreateVersionFromStringCall ==
  Answer("createVersionFromString", createVersionFromString(ret.args.text))

\* The document ApplyUpdates builds for the drawn value and height is
\* unwrapped again.
WrapUnwrapCall ==
  LET couchDoc == BuildCouchDoc(ret.args.namespace, ret.args.key,
                                VersionedValue(ret.args.value, ret.args.height),
                                EmptyRev)
      unwrapped == removeDataWrapper(couchDoc.JSONValue, couchDoc.Attachments)
  IN  Answer("BuildCouchDoc",
             [doc |-> couchDoc, panic |-> unwrapped.panic,
              Value |-> unwrapped.Value, Version |-> unwrapped.Version])

NextCodec ==
  \/ SplitCompositeKeyCall
  \/ RangeBoundsCall
  \/ RemoveDataWrapperCall
  \/ CreateVersionFromStringCall
  \/ WrapUnwrapCall

SpecCodec == InitCodec /\ [][NextCodec]_vars

(* ------------------------------------------------------------------ *)
(* SpecRegistry: VersionedDBProvider.GetDBHandle called concurrently.  *)
(* Each caller goes through the function statement by statement.       *)
(* ------------------------------------------------------------------ *)

Callers == 1..MaxCallers
DbNames == {"ch1", "ch2"}

\* A caller outside GetDBHandle that has made no call yet.
IdleCaller ==
  [pc |-> "idle", dbName |-> "", vdb |-> NoHandle, err |-> NoError,
   constructed |-> FALSE]

\* Line 72: a provider with no database registered and its mutex free.
InitRegistry ==
  /\ NewHandle
  /\ databases = EmptyMap
  /\ mux = NoCaller
  /\ handles = <<>>
  /\ callers = [c \in Callers |-> IdleCaller]
  /\ scan = EmptyMap
  /\ units = EmptyMap

\* What a step of GetDBHandle leaves alone.
RegistryFrame == UNCHANGED <<db, unflushed, savepoint, committedData, ret, scan, units>>

\* A caller calls GetDBHandle(dbName).
GetDBHandleCall(c) ==
  /\ callers[c].pc \in {"idle", "done"}
  /\ \E dbName \in DbNames :
       callers' = [callers EXCEPT ![c] = [IdleCaller EXCEPT !.pc = "lock",
                                                           !.dbName = dbName]]
  /\ UNCHANGED <<databases, mux, handles>>
  /\ RegistryFrame

\* provider.mux.Lock() taken whether or not another caller holds the mutex.
LockUnguarded(c) ==
  /\ callers[c].pc = "lock"
  /\ mux' = c
  /\ callers' = [callers EXCEPT ![c].pc = "lookup"]
  /\ UNCHANGED <<databases, handles>>
  /\ RegistryFrame

\* Line 77: provider.mux.Lock() returns once the mutex is free.
Lock(c) ==
  /\ callers[c].pc = "lock"
  /\ mux = NoCaller
  /\ mux' = c
  /\ callers' = [callers EXCEPT ![c].pc = "lookup"]
  /\ UNCHANGED <<databases, handles>>
  /\ RegistryFrame

\* Lines 80-81: vdb := provider.databases[dbName]; nil when not registered.
Lookup(c) ==
  /\ callers[c].pc = "lookup"
  /\ LET dbName == callers[c].dbName
         vdb == IF dbName \in DOMAIN databases THEN databases[dbName] ELSE NoHandle
     IN  callers' = [callers EXCEPT ![c].vdb = vdb,
                                    ![c].pc = IF vdb = NoHandle THEN "construct"
                                              ELSE "return"]
  /\ UNCHANGED <<databases, mux, handles>>
  /\ RegistryFrame

\* Lines 83-86: newVersionedDB makes a new object, or fails when the store
\* cannot create the database; GetDBHandle then returns the error.
Construct(c) ==
  /\ callers[c].pc = "construct"
  /\ \E fail \in BOOLEAN :
       IF fail
         THEN /\ callers' = [callers EXCEPT
                               ![c].err = StoreError("CreateCouchDatabase"),
                               ![c].vdb = NoHandle,
                               ![c].pc = "return"]
              /\ UNCHANGED handles
         ELSE /\ handles' = Append(handles, [dbName |-> callers[c].dbName,
                                             committedData |-> NewCommittedData])
              /\ callers' = [callers EXCEPT ![c].vdb = Len(handles) + 1,
                                            ![c].constructed = TRUE,
                                            ![c].pc = "register"]
  /\ UNCHANGED <<databases, mux>>
  /\ RegistryFrame

\* Line 87: provider.databases[dbName] = vdb.
Register(c) ==
  /\ callers[c].pc = "register"
  /\ databases' = Put(databases, callers[c].dbName, callers[c].vdb)
  /\ callers' = [callers EXCEPT ![c].pc = "return"]
  /\ UNCHANGED <<mux, handles>>
  /\ RegistryFrame

\* Line 78: the deferred provider.mux.Unlock() runs as GetDBHandle returns.
Unlock(c) ==
  /\ callers[c].pc = "return"
  /\ mux' = NoCaller
  /\ callers' = [callers EXCEPT ![c].pc = "done"]
  /\ UNCHANGED <<databases, handles>>
  /\ RegistryFrame

NextRegistry ==
  \E c \in Callers :
    \/ GetDBHandleCall(c)
    \/ Lock(c)
    \/ Lookup(c)
    \/ Construct(c)
    \/ Register(c)
    \/ Unlock(c)

SpecRegistry == InitRegistry /\ [][NextRegistry]_vars

(* ------------------------------------------------------------------ *)
(* SpecScan: the iterators returned by GetStateRangeScanIterator and   *)
(* ExecuteQuery, over the records the store returned.                  *)
(* ------------------------------------------------------------------ *)

\* A nil statedb.QueryResult, and a *statedb.VersionedKV.
NilQueryResult ==
  [nil |-> TRUE, panic |-> FALSE, Namespace |-> <<>>, Key |-> <<>>,
   Value |-> NilValue, Version |-> NilHeight]
VersionedKV(namespace, key, value, version) ==
  [nil |-> FALSE, panic |-> FALSE, Namespace |-> namespace, Key |-> key,
   Value |-> value, Version |-> version]
\* The call did not return: it panicked.
PanicResult == [NilQueryResult EXCEPT !.panic = TRUE]

\* Lines 720-722 and 753-755.
newKVScanner(namespace, queryResults) ==
  [kind |-> "kv", cursor |-> -1, namespace |-> namespace, results |-> queryResults]
newQueryScanner(queryResults) ==
  [kind |-> "query", cursor |-> -1, namespace |-> <<>>, results |-> queryResults]

\* kvScanner.Next that leaves the cursor where it was.
kvScannerNextStuck(scanner) ==
  LET advanced == [scanner EXCEPT !.cursor = @ + 1]
  IN  IF advanced.cursor >= Len(scanner.results)
        THEN [scanner |-> scanner, result |-> NilQueryResult, err |-> NoError]
        ELSE LET selectedKV == scanner.results[advanced.cursor + 1]
                 split == splitCompositeKey(selectedKV.ID)
                 unwrapped == removeDataWrapper(selectedKV.Value,
                                                selectedKV.Attachments)
             IN  [scanner |-> scanner,
                  result |-> VersionedKV(scanner.namespace, split.Key,
                                         unwrapped.Value, unwrapped.Version),
                  err |-> NoError]

\* Lines 724-742; results[cursor] of the 0-based Go slice is element
\* cursor + 1 here.
kvScannerNext(scanner) ==
  LET advanced == [scanner EXCEPT !.cursor = @ + 1]
  IN  IF advanced.cursor >= Len(scanner.results)
        THEN [scanner |-> advanced, result |-> NilQueryResult, err |-> NoError]
        ELSE LET selectedKV == scanner.results[advanced.cursor + 1]
                 split == splitCompositeKey(selectedKV.ID)
                 unwrapped == removeDataWrapper(selectedKV.Value,
                                                selectedKV.Attachments)
             IN  [scanner |-> advanced,
                  result |-> IF split.panic \/ unwrapped.panic THEN PanicResult
                             ELSE VersionedKV(scanner.namespace, split.Key,
                                              unwrapped.Value, unwrapped.Version),
                  err |-> NoError]

\* Lines 757-775.
queryScannerNext(scanner) ==
  LET advanced == [scanner EXCEPT !.cursor = @ + 1]
  IN  IF advanced.cursor >= Len(scanner.results)
        THEN [scanner |-> advanced, result |-> NilQueryResult, err |-> NoError]
        ELSE LET selectedResultRecord == scanner.results[advanced.cursor + 1]
                 split == splitCompositeKey(selectedResultRecord.ID)
                 unwrapped == removeDataWrapper(selectedResultRecord.Value,
                                                selectedResultRecord.Attachments)
             IN  [scanner |-> advanced,
                  result |-> IF split.panic \/ unwrapped.panic THEN PanicResult
                             ELSE VersionedKV(split.Namespace, split.Key,
                                              unwrapped.Value, unwrapped.Version),
                  err |-> NoError]

\* Lines 744-746 and 777-779: Close assigns nil to its own copy of the
\* receiver; the iterator is as it was.
ScannerClose(scanner) == scanner

\* The states written by ApplyUpdates that a scan finds in the store.
ScanNamespaces == {<<97>>, <<98>>}
StoredStates ==
  [Namespace : ScanNamespaces, Key : Keys, Value : {JsonCompact, Binary},
   Version : Heights]

\* The store's record of a state: its document as ApplyUpdates built it and
\* the store keeps it.
QueryResult(state) ==
  LET couchDoc == BuildCouchDoc(state.Namespace, state.Key,
                                VersionedValue(state.Value, state.Version), EmptyRev)
      stored == StoreWrite(NoDoc, couchDoc)
  IN  [ID |-> couchDoc.JSONValue.id, Value |-> stored.json,
       Attachments |-> stored.attachments]

\* What the store can return: at most MaxResults states, each identifier
\* once; a range scan returns states of its namespace in identifier order.
DistinctIds(states) ==
  \A i \in 1..Len(states), j \in 1..Len(states) :
    (states[i].Namespace = states[j].Namespace /\ states[i].Key = states[j].Key)
      => i = j
QueryOutcomes == {states \in SeqsUpTo(StoredStates, MaxResults) : DistinctIds(states)}
RangeOutcomes(namespace) ==
  {states \in QueryOutcomes :
     /\ \A i \in 1..Len(states) : states[i].Namespace = namespace
     /\ \A i \in 1..(Len(states) - 1) : states[i].Key[1] < states[i + 1].Key[1]}

\* An iterator fresh from GetStateRangeScanIterator or ExecuteQuery, its
\* caller having made no call on it yet.
NewScan(scanner, states) ==
  [scanner |-> scanner, states |-> states, returned |-> <<>>, closes |-> 0]

InitScan ==
  /\ NewHandle
  /\ databases = EmptyMap
  /\ mux = NoCaller
  /\ handles = <<>>
  /\ callers = EmptyMap
  /\ units = EmptyMap
  /\ \/ \E namespace \in ScanNamespaces :
          \E states \in RangeOutcomes(namespace) :
            scan = NewScan(newKVScanner(namespace,
                                        [i \in 1..Len(states) |-> QueryResult(states[i])]),
                           states)
     \/ \E states \in QueryOutcomes :
          scan = NewScan(newQueryScanner([i \in 1..Len(states) |-> QueryResult(states[i])]),
                         states)

ScanFrame ==
  UNCHANGED <<db, unflushed, savepoint, committedData, ret, databases, mux,
              handles, callers, units>>

\* The caller calls Next on its range-scan iterator.
KVScannerNextCall ==
  /\ scan.scanner.kind = "kv"
  /\ Len(scan.returned) < MaxNext
  /\ \E r \in {kvScannerNext(scan.scanner)} :
       scan' = [scan EXCEPT !.scanner = r.scanner,
                            !.returned = Append(@, [result |-> r.result, err |-> r.err])]
  /\ ScanFrame

\* The caller calls Next on its query iterator.
QueryScannerNextCall ==
  /\ scan.scanner.kind = "query"
  /\ Len(scan.returned) < MaxNext
  /\ \E r \in {queryScannerNext(scan.scanner)} :
       scan' = [scan EXCEPT !.scanner = r.scanner,
                            !.returned = Append(@, [result |-> r.result, err |-> r.err])]
  /\ ScanFrame

\* The caller calls Close, at any point.
ScannerCloseCall ==
  /\ scan.closes < MaxClose
  /\ scan' = [scan EXCEPT !.scanner = ScannerClose(@), !.closes = @ + 1]
  /\ ScanFrame

NextScan ==
  \/ KVScannerNextCall
  \/ QueryScannerNextCall
  \/ ScannerCloseCall

SpecScan == InitScan /\ [][NextScan]_vars

(* ------------------------------------------------------------------ *)
(* SpecUnits: two work units on the same handle, each running           *)
(* ApplyUpdates or GetStateMultipleKeys phase by phase, the phases of   *)
(* the two interleaved.  The store does not fail.                      *)
(* ------------------------------------------------------------------ *)

Units == {"first", "second"}

\* A work unit that is in no call.  interfered: the cache or the store was
\* written by the other unit since this unit's call began, or the other
\* unit was in a call when it began; clearedBetween: the other unit cleared
\* the cache after this unit's ApplyUpdates loaded its revisions and before
\* it built its documents.
IdleUnit ==
  [pc |-> "idle", op |-> "none", batch |-> EmptyMap, order |-> <<>>,
   namespace |-> <<>>, keys |-> <<>>, height |-> NilHeight, docs |-> <<>>,
   submitted |-> <<>>, vals |-> <<>>, err |-> NoError, panic |-> FALSE,
   interfered |-> FALSE, clearedBetween |-> FALSE]

InitUnits ==
  /\ NewHandle
  /\ databases = EmptyMap
  /\ mux = NoCaller
  /\ handles = <<>>
  /\ callers = EmptyMap
  /\ scan = EmptyMap
  /\ units = [u \in Units |-> IdleUnit]

UnitsFrame == UNCHANGED <<ret, databases, mux, handles, callers, scan>>

\* Unit u begins a call: the other unit may be in the middle of one.
Begun(u, op) ==
  [IdleUnit EXCEPT !.op = op,
                   !.interfered = \E v \in Units \ {u} : units[v].pc # "idle"]

\* Unit u has written the cache or the store (cleared: it cleared the
\* cache): the other unit, when in a call, is marked.
Disturb(us, u, cleared) ==
  [v \in Units |->
     IF v = u \/ us[v].pc = "idle" THEN us[v]
     ELSE [us[v] EXCEPT
             !.interfered = TRUE,
             !.clearedBetween = @ \/ (cleared /\ us[v].pc = "loaded")]]

UnitBatches == Batches({Binary}, {[BlockNum |-> 10, TxNum |-> 2]})

\* Lines 329-367 of ApplyUpdates: the missing keys are found and their
\* revisions loaded into the cache.
ApplyUpdatesLoad(u) ==
  /\ units[u].pc = "idle"
  /\ \E batch \in UnitBatches :
       \E order \in Orders(DOMAIN batch) :
         /\ \A id \in BatchIds(batch) : db[id].rev < MaxRev
         /\ LET missingKeys == MissingKeys(committedData, order)
                loaded == IF Len(missingKeys) > 0
                            THEN LoadCommittedVersions(committedData, db,
                                                       missingKeys, FALSE)
                            ELSE [cd |-> committedData, panic |-> FALSE, log |-> <<>>]
            IN  /\ committedData' = loaded.cd
                /\ units' = Disturb(
                     [units EXCEPT ![u] =
                        [Begun(u, "ApplyUpdates") EXCEPT
                           !.pc = IF loaded.panic THEN "crashed" ELSE "loaded",
                           !.panic = loaded.panic,
                           !.batch = batch, !.order = order,
                           !.height = [BlockNum |-> 10, TxNum |-> 2]]],
                     u, FALSE)
  /\ UNCHANGED <<db, unflushed, savepoint>>
  /\ UnitsFrame

\* Lines 369-411: the documents are built with the revisions the cache
\* holds now.
ApplyUpdatesBuild(u) ==
  /\ units[u].pc = "loaded"
  /\ units' = [units EXCEPT
       ![u].docs = [i \in 1..Len(units[u].order) |->
                      BuildCouchDoc(units[u].order[i].Namespace,
                                    units[u].order[i].Key,
                                    units[u].batch[units[u].order[i]],
                                    CachedRevision(committedData, units[u].order[i]))],
       ![u].pc = "built"]
  /\ UNCHANGED <<db, unflushed, savepoint, committedData>>
  /\ UnitsFrame

\* Lines 413-434: the bulk write and the look at its responses.
ApplyUpdatesWrite(u) ==
  /\ units[u].pc = "built"
  /\ \A i \in 1..Len(units[u].docs) : db[units[u].docs[i].JSONValue.id].rev < MaxRev
  /\ LET written == BatchUpdateDocuments(db, units[u].docs, {})
         touched == {written.resp[i].ID :
                       i \in {j \in 1..Len(written.resp) : written.resp[j].Ok}}
     IN  /\ db' = written.db
         /\ unflushed' = unflushed \cup touched
         /\ units' = Disturb(
              [units EXCEPT
                 ![u].submitted = Submitted(db, units[u].docs, written.resp),
                 ![u].err = FirstNotOk(written.resp),
                 ![u].pc = "written"],
              u, FALSE)
  /\ UNCHANGED <<savepoint, committedData>>
  /\ UnitsFrame

\* Lines 438-447 and the deferred call of line 332: the savepoint is
\* recorded unless the bulk write reported an error, and the cache cleared.
ApplyUpdatesReturn(u) ==
  /\ units[u].pc = "written"
  /\ LET saved == recordSavepoint(db, unflushed, savepoint, units[u].height, "none")
     IN  IF units[u].err = NoError
           THEN unflushed' = saved.unflushed /\ savepoint' = saved.savepoint
           ELSE UNCHANGED <<unflushed, savepoint>>
  /\ committedData' = ClearCachedVersions(committedData)
  /\ units' = Disturb([units EXCEPT ![u] = IdleUnit], u, TRUE)
  /\ UNCHANGED db
  /\ UnitsFrame

\* Lines 265-269 of GetStateMultipleKeys: the keys are loaded into the cache.
GetStateMultipleKeysLoad(u) ==
  /\ units[u].pc = "idle"
  /\ \E namespace \in Namespaces, keys \in SeqsUpTo(Keys, MaxKeys) :
       LET compositeKeys ==
             [i \in 1..Len(keys) |-> [Namespace |-> namespace, Key |-> keys[i]]]
           loaded == LoadCommittedValues(committedData, db, compositeKeys, FALSE)
       IN  /\ committedData' = loaded.cd
           /\ units' = Disturb(
                [units EXCEPT ![u] =
                   [Begun(u, "GetStateMultipleKeys") EXCEPT
                      !.pc = IF loaded.panic THEN "crashed" ELSE "resolving",
                      !.panic = loaded.panic,
                      !.namespace = namespace, !.keys = keys]],
                u, FALSE)
  /\ UNCHANGED <<db, unflushed, savepoint>>
  /\ UnitsFrame

\* Lines 272-279: the loop of GetState calls.
GetStateMultipleKeysResolve(u) ==
  /\ units[u].pc = "resolving"
  /\ \E r \in {ResolveKeys(committedData, db, units[u].namespace, units[u].keys,
                           1, 0)} :
       units' = [units EXCEPT ![u].vals = r.vals, ![u].err = r.err,
                              ![u].panic = r.panic,
                              ![u].pc = IF r.panic THEN "crashed" ELSE "resolved"]
  /\ UNCHANGED <<db, unflushed, savepoint, committedData>>
  /\ UnitsFrame

\* Line 270: the deferred ClearCachedVersions runs as the call returns.
GetStateMultipleKeysReturn(u) ==
  /\ units[u].pc = "resolved"
  /\ committedData' = ClearCachedVersions(committedData)
  /\ units' = Disturb([units EXCEPT ![u] = IdleUnit], u, TRUE)
  /\ UNCHANGED <<db, unflushed, savepoint>>
  /\ UnitsFrame

NextUnits ==
  \E u \in Units :
    \/ ApplyUpdatesLoad(u)
    \/ ApplyUpdatesBuild(u)
    \/ ApplyUpdatesWrite(u)
    \/ ApplyUpdatesReturn(u)
    \/ GetStateMultipleKeysLoad(u)
    \/ GetStateMultipleKeysResolve(u)
    \/ GetStateMultipleKeysReturn(u)

SpecUnits == InitUnits /\ [][NextUnits]_vars

(* ------------------------------------------------------------------ *)
(* Properties.                                                         *)
(* ------------------------------------------------------------------ *)

\* The position of the first call named name in log, 0 when there is none.
CallAt(log, name) ==
  IF \E i \in 1..Len(log) : log[i].call = name
    THEN CHOOSE i \in 1..Len(log) :
           /\ log[i].call = name
           /\ \A j \in 1..(i - 1) : log[j].call # name
    ELSE 0

Applied == ret.op = "ApplyUpdates" /\ ~ret.panic

\* What a point read with an empty cache answers for ck, the store's
\* calls succeeding.
FreshRead(ck) ==
  GetState(ClearCachedVersions(committedData), db, ck.Namespace, ck.Key, FALSE)

\* A JSON object as json.Marshal writes it after decoding: no insignificant
\* whitespace.
Reserialised(value) == IF value = JsonSpaced THEN JsonCompact ELSE value

\* The update of ck in the answered batch is what a later read finds: the
\* key absent for a delete, else the update's version with its value
\* (a JSON value as serialised again).
Visible(ck) ==
  IF ret.batch[ck].Value = NilValue
    THEN FreshRead(ck).err = NoError /\ FreshRead(ck).vv = NilVersionedValue
    ELSE FreshRead(ck).vv =
           VersionedValue(Reserialised(ret.batch[ck].Value), ret.batch[ck].Version)

\* The answered ApplyUpdates issued the savepoint write behind the fence: a
\* successful full commit came before it, and before that the bulk write of
\* the whole batch with every document ok; and once the savepoint is
\* written it reads back as the call's height while every update of the
\* batch is in the store and flushed.
SavepointFenced ==
  LET s == CallAt(ret.log, "SaveDoc")
      f == CallAt(ret.log, "EnsureFullCommit")
      b == CallAt(ret.log, "BatchUpdateDocuments")
  IN  /\ f # 0 /\ f < s /\ ret.log[f].ok
      /\ DOMAIN ret.batch # {} =>
           /\ b # 0 /\ b < f /\ ret.log[b].ok
           /\ {ret.log[b].docs[j].id : j \in 1..Len(ret.log[b].docs)} = BatchIds(ret.batch)
           /\ \A j \in 1..Len(ret.log[b].docs) : ret.log[b].docs[j].ok
      /\ ret.log[s].ok =>
           /\ GetLatestSavePoint(savepoint, FALSE).height = ret.height
           /\ BatchIds(ret.batch) \cap unflushed = {}
           /\ \A ck \in DOMAIN ret.batch : Visible(ck)

\* C1: savepoint fencing.  Every call that issues the savepoint write is an
\* ApplyUpdates that issued it after the all-ok bulk write and a later
\* successful full commit, leaving the savepoint at its height with the
\* batch stored and flushed; and no other call changes the savepoint.
C1_SavepointFencing ==
  /\ (ret.op = "ApplyUpdates" /\ CallAt(ret.log, "SaveDoc") # 0) => SavepointFenced
  /\ (ret.op # "none" /\ savepoint # ret.savepointBefore) =>
       ret.op = "ApplyUpdates" /\ CallAt(ret.log, "SaveDoc") # 0

\* C1 witness: an ApplyUpdates of a batch with updates, on a key written
\* before, has written its savepoint.
C1_Witness ==
  /\ Applied /\ ret.err = NoError
  /\ DOMAIN ret.batch # {}
  /\ \E id \in BatchIds(ret.batch) : db[id].rev = 2
  /\ GetLatestSavePoint(savepoint, FALSE).height = ret.height

\* C2: write then read.  After a successful ApplyUpdates, a point read with
\* an empty cache returns, for every key the batch sets, exactly the value
\* bytes and the version of the update, and for every key it deletes,
\* absent with no error.
C2_WriteThenRead ==
  (Applied /\ ret.err = NoError) =>
    \A ck \in DOMAIN ret.batch :
      IF ret.batch[ck].Value = NilValue
        THEN FreshRead(ck).err = NoError /\ FreshRead(ck).vv = NilVersionedValue
        ELSE FreshRead(ck).vv = VersionedValue(ret.batch[ck].Value, ret.batch[ck].Version)

\* What the code does keep of write then read: the version of every update,
\* the bytes of a binary value, every delete, and a JSON value as
\* serialised again.
WriteThenReadReserialised ==
  (Applied /\ ret.err = NoError) => \A ck \in DOMAIN ret.batch : Visible(ck)

\* C3: concurrency-token reconciliation.  In every bulk write ApplyUpdates
\* submits, a document for a key the store holds carries the revision the
\* store holds for it, a document for a key the store does not hold carries
\* no revision, and the store answers no document with a revision conflict.
C3_TokenReconciliation ==
  (ret.op = "ApplyUpdates" /\ CallAt(ret.log, "BatchUpdateDocuments") # 0) =>
    LET docs == ret.log[CallAt(ret.log, "BatchUpdateDocuments")].docs
    IN  \A j \in 1..Len(docs) :
          /\ docs[j].live => docs[j].rev = docs[j].cur
          /\ ~docs[j].live => docs[j].rev = EmptyRev
          /\ docs[j].error # "conflict"

\* What a point read with an empty cache answered for ck when the call
\* being answered started.
FreshReadBefore(ck) ==
  GetState(ClearCachedVersions(committedData), ret.dbBefore, ck.Namespace, ck.Key, FALSE).vv

\* The store's answer for ck in the bulk write of the answered ApplyUpdates
\* was ok.
WrittenOk(ck) ==
  LET b == CallAt(ret.log, "BatchUpdateDocuments")
  IN  /\ b # 0
      /\ \E j \in 1..Len(ret.log[b].docs) :
           /\ ret.log[b].docs[j].id = constructCompositeKey(ck.Namespace, ck.Key)
           /\ ret.log[b].docs[j].ok

\* C4 as claimed: ApplyUpdates is all or nothing.  When it returns success
\* a later read finds every update of the batch, and when it returns an
\* error a later read finds none of them: every key of the batch reads as
\* it did before the call.
C4_AtomicBatchWrite ==
  Applied =>
    /\ ret.err = NoError => \A ck \in DOMAIN ret.batch : Visible(ck)
    /\ ret.err # NoError =>
         \A ck \in DOMAIN ret.batch : FreshRead(ck).vv = FreshReadBefore(ck)

\* C4 amended: when ApplyUpdates returns success a later read finds every
\* update of the batch; when it returns an error, a later read finds
\* exactly the updates whose documents the bulk write reported ok (none
\* when the bulk write call itself failed, all of them when the flush or a
\* savepoint step failed), every other document of the store being as it
\* was before the call.
C4_BatchWrite ==
  Applied =>
    /\ ret.err = NoError => \A ck \in DOMAIN ret.batch : Visible(ck)
    /\ \A ck \in DOMAIN ret.batch :
         LET id == constructCompositeKey(ck.Namespace, ck.Key)
         IN  IF WrittenOk(ck) THEN Visible(ck) ELSE db[id] = ret.dbBefore[id]
    /\ \A id \in Ids \ BatchIds(ret.batch) : db[id] = ret.dbBefore[id]
    /\ (\A ck \in DOMAIN ret.batch : WrittenOk(ck)) <=>
         (CallAt(ret.log, "EnsureFullCommit") # 0 \/ ret.batch = EmptyMap)

\* C4 witness: an ApplyUpdates returned an error after the store had
\* written one document of its batch and refused another, and the written
\* one reads differently from before.
C4_Witness ==
  /\ Applied /\ ret.err # NoError
  /\ \E ck1, ck2 \in DOMAIN ret.batch :
       /\ WrittenOk(ck1) /\ ~WrittenOk(ck2)
       /\ FreshRead(ck1).vv # FreshReadBefore(ck1)

\* The documents of the bulk write of the answered ApplyUpdates, <<>> when
\* it made none.
BulkDocs ==
  IF CallAt(ret.log, "BatchUpdateDocuments") # 0
       /\ ret.log[CallAt(ret.log, "BatchUpdateDocuments")].ok
    THEN ret.log[CallAt(ret.log, "BatchUpdateDocuments")].docs
    ELSE <<>>

\* C5: partial batch failure.  When a response of the bulk write is not ok,
\* ApplyUpdates returns the error that names the first such document in
\* response order with the store's error and reason, makes neither the
\* full commit nor the savepoint write, and leaves the savepoint as it was.
C5_PartialBatchFailure ==
  (ret.op = "ApplyUpdates" /\ \E j \in 1..Len(BulkDocs) : ~BulkDocs[j].ok) =>
    LET first == CHOOSE j \in 1..Len(BulkDocs) :
                   ~BulkDocs[j].ok /\ \A i \in 1..(j - 1) : BulkDocs[i].ok
    IN  /\ ret.err = [kind |-> "Error occurred while saving document",
                      ID |-> BulkDocs[first].id,
                      Error |-> BulkDocs[first].error,
                      Reason |-> BulkDocs[first].reason]
        /\ CallAt(ret.log, "EnsureFullCommit") = 0
        /\ CallAt(ret.log, "GetDatabaseInfo") = 0
        /\ CallAt(ret.log, "SaveDoc") = 0
        /\ savepoint = ret.savepointBefore

\* C5 witness: the store refused both documents of a bulk write, a savepoint
\* being there from an earlier call.
C5_Witness ==
  /\ ret.op = "ApplyUpdates" /\ Len(BulkDocs) = 2
  /\ ~BulkDocs[1].ok /\ ~BulkDocs[2].ok
  /\ ret.err.ID = BulkDocs[1].id
  /\ ret.savepointBefore.live

\* C6: flush failure is fatal.  When EnsureFullCommit fails or answers not
\* ok during ApplyUpdates, the database info is not read, the savepoint
\* document is not written, ApplyUpdates returns an error, and
\* GetLatestSavePoint answers afterwards what it answered before the call.
C6_FlushFailureFatal ==
  (ret.op = "ApplyUpdates" /\ CallAt(ret.log, "EnsureFullCommit") # 0
     /\ ~ret.log[CallAt(ret.log, "EnsureFullCommit")].ok) =>
    /\ ret.err = [kind |-> "Failed to perform full commit", ID |-> <<>>,
                  Error |-> "", Reason |-> ""]
    /\ CallAt(ret.log, "GetDatabaseInfo") = 0
    /\ CallAt(ret.log, "SaveDoc") = 0
    /\ savepoint = ret.savepointBefore
    /\ GetLatestSavePoint(savepoint, FALSE)
         = GetLatestSavePoint(ret.savepointBefore, FALSE)

\* C6 witness: the full commit of an ApplyUpdates at a new height failed
\* after its bulk write, the savepoint of an earlier call staying.
C6_Witness ==
  /\ ret.op = "ApplyUpdates" /\ Len(BulkDocs) > 0
  /\ CallAt(ret.log, "EnsureFullCommit") # 0
  /\ ~ret.log[CallAt(ret.log, "EnsureFullCommit")].ok
  /\ ret.savepointBefore.live
  /\ GetLatestSavePoint(savepoint, FALSE).height # ret.height

\* The answered call is an ApplyUpdates that returned success.
AppliedOk == Applied /\ ret.err = NoError

\* C7: latest savepoint.  GetLatestSavePoint answers absent with no error
\* while no savepoint document is written, which only a successful
\* ApplyUpdates does; after a successful ApplyUpdates it answers that
\* call's height; a failed ApplyUpdates and every other call leave its
\* answer as it was; and a call of it returns that answer.
C7_LatestSavepoint ==
  /\ ~savepoint.live =>
       GetLatestSavePoint(savepoint, FALSE) = [err |-> NoError, height |-> NilHeight]
  /\ (ret.op # "none" /\ savepoint.live /\ ~ret.savepointBefore.live) => AppliedOk
  /\ AppliedOk =>
       GetLatestSavePoint(savepoint, FALSE) = [err |-> NoError, height |-> ret.height]
  /\ (ret.op # "none" /\ ~AppliedOk) =>
       GetLatestSavePoint(savepoint, FALSE)
         = GetLatestSavePoint(ret.savepointBefore, FALSE)
  /\ (ret.op = "GetLatestSavePoint" /\ ret.err = NoError) =>
       ret.height = GetLatestSavePoint(ret.savepointBefore, FALSE).height

\* C7 witness: an ApplyUpdates at (10,2) succeeded where the savepoint was
\* that of a successful call at (1,0), and the savepoint now reads (10,2).
C7_Witness ==
  /\ AppliedOk
  /\ GetLatestSavePoint(ret.savepointBefore, FALSE).height = [BlockNum |-> 1, TxNum |-> 0]
  /\ ret.height = [BlockNum |-> 10, TxNum |-> 2]
  /\ GetLatestSavePoint(savepoint, FALSE).height = [BlockNum |-> 10, TxNum |-> 2]

\* C8: cache reset after apply.  When ApplyUpdates returns, on whichever
\* path, the three maps of the cache are empty.
C8_CacheReset ==
  ret.op = "ApplyUpdates" =>
    /\ committedData.committedVersions = EmptyMap
    /\ committedData.revisionNumbers = EmptyMap
    /\ committedData.committedValues = EmptyMap

\* C8 witness: an ApplyUpdates that found keys cached, loaded the missing
\* ones and then failed.
C8_Witness ==
  /\ ret.op = "ApplyUpdates" /\ ret.err # NoError
  /\ ret.cachedBefore # {}
  /\ CallAt(ret.log, "BatchRetrieve") # 0

\* What a point read of (namespace, key) answers with an empty cache from
\* the store as it is, the read succeeding.
DirectRead(namespace, key) == GetState(NewCommittedData, db, namespace, key, FALSE).vv

\* C9: multi-key read shape.  A GetStateMultipleKeys that returns success
\* returns one element per requested key, in the order of the keys, the
\* element being absent exactly where the store does not hold the key; and
\* when the call returns, with success or an error, the three maps of the
\* cache are empty.
C9_MultiKeyReadShape ==
  (ret.op = "GetStateMultipleKeys" /\ ~ret.panic) =>
    /\ committedData = NewCommittedData
    /\ ret.err = NoError =>
         /\ Len(ret.vals) = Len(ret.keys)
         /\ \A i \in 1..Len(ret.keys) :
              IF db[constructCompositeKey(ret.namespace, ret.keys[i])].live
                THEN ~ret.vals[i].nil
                ELSE ret.vals[i] = NilVersionedValue

\* C9 witness: a successful read of two keys, one the store holds and one
\* it does not, the cache holding entries when the call started.
C9_Witness ==
  /\ ret.op = "GetStateMultipleKeys" /\ ~ret.panic /\ ret.err = NoError
  /\ Len(ret.keys) = 2
  /\ ~db[constructCompositeKey(ret.namespace, ret.keys[1])].live
  /\ db[constructCompositeKey(ret.namespace, ret.keys[2])].live
  /\ ret.cachedBefore # {}

\* C10: multi-key read agrees with point read.  After LoadCommittedValues
\* the cache holds, for every requested key the store holds, the value and
\* the version a point read decodes from the stored document; and every
\* element of a successful GetStateMultipleKeys equals what GetState
\* answers for its key by a direct read of the store with an empty cache.
C10_MultiKeyAgreesWithPointRead ==
  /\ (ret.op = "LoadCommittedValues" /\ ~ret.panic
        /\ CallAt(ret.log, "BatchRetrieve") # 0
        /\ ret.log[CallAt(ret.log, "BatchRetrieve")].ok) =>
       \A i \in 1..Len(ret.keys) :
         db[constructCompositeKey(ret.keys[i].Namespace, ret.keys[i].Key)].live =>
           /\ ret.keys[i] \in DOMAIN committedData.committedValues
           /\ committedData.committedValues[ret.keys[i]]
                = DirectRead(ret.keys[i].Namespace, ret.keys[i].Key).Value
           /\ committedData.committedVersions[ret.keys[i]]
                = DirectRead(ret.keys[i].Namespace, ret.keys[i].Key).Version
  /\ (ret.op = "GetStateMultipleKeys" /\ ~ret.panic /\ ret.err = NoError) =>
       /\ Len(ret.vals) = Len(ret.keys)
       /\ \A i \in 1..Len(ret.keys) :
            ret.vals[i] = DirectRead(ret.namespace, ret.keys[i])

\* The point read of the answered call failed.
ReadFailed ==
  /\ CallAt(ret.log, "ReadDoc") # 0
  /\ ~ret.log[CallAt(ret.log, "ReadDoc")].ok

\* C11: GetVersion is symmetric to GetState.  For a key that is not in the
\* cache, GetVersion does not crash; it returns the store's error when the
\* point read fails, and else no error with the version GetState returns
\* for the key, nil when the store holds no such document.
C11_GetVersionSymmetric ==
  (ret.op = "GetVersion"
     /\ [Namespace |-> ret.namespace, Key |-> ret.keys[1]]
          \notin DOMAIN committedData.committedVersions) =>
    /\ ~ret.panic
    /\ IF ReadFailed
         THEN ret.err = StoreError("ReadDoc")
         ELSE /\ ret.err = NoError
              /\ ret.height = DirectRead(ret.namespace, ret.keys[1]).Version

\* C12: error propagation.  A call on the handle during which a call of
\* the store client failed returns an error to its caller.
C12_ErrorPropagation ==
  (ret.op \in {"ApplyUpdates", "GetState", "GetVersion", "GetStateMultipleKeys"}
     /\ \E i \in 1..Len(ret.log) : ~ret.log[i].ok) =>
    /\ ~ret.panic
    /\ ret.err # NoError

\* The version texts that hold no number at all.
NoNumberTexts == {<<>>, NoVersionText, <<"x">>, <<":">>, <<"x", ":", "y">>}

\* The height a decode call answered with.
DecodedHeight ==
  IF ret.op = "removeDataWrapper" THEN ret.result.Version ELSE ret.result.height

\* C13: decoding a document whose version string is absent, empty, without
\* ':' or not numeric completes normally and gives 0 for each malformed
\* part: the decode does not crash.
C13_LenientVersionDecoding ==
  ret.op \in {"removeDataWrapper", "createVersionFromString"} =>
    /\ ~ret.result.panic
    /\ ret.args.text \in NoNumberTexts =>
         DecodedHeight = [BlockNum |-> 0, TxNum |-> 0]

\* C16: a document identifier built from a namespace without 0x00 and any
\* key (empty, or holding 0x00) splits back into that namespace and key, so
\* no two pairs share an identifier.
C16_KeyCodecRoundTrip ==
  ret.op = "splitCompositeKey" =>
    /\ ret.result = [panic |-> FALSE, Namespace |-> ret.args.namespace,
                     Key |-> ret.args.key]
    /\ \A ns2 \in CodecNamespaces, k2 \in CodecKeys :
         constructCompositeKey(ns2, k2)
             = constructCompositeKey(ret.args.namespace, ret.args.key) =>
           ns2 = ret.args.namespace /\ k2 = ret.args.key

\* A key that holds the separator byte came back whole.
C16_Witness ==
  /\ ret.op = "splitCompositeKey"
  /\ ret.args.namespace = <<97>>
  /\ ret.args.key = <<97, 0>>
  /\ ret.result.Key = <<97, 0>>

\* Byte-wise order of byte strings: a proper prefix sorts first.
RECURSIVE BytesLess(_, _)
BytesLess(a, b) ==
  IF b = <<>> THEN FALSE
  ELSE IF a = <<>> THEN TRUE
  ELSE IF a[1] # b[1] THEN a[1] < b[1]
  ELSE BytesLess(Tail(a), Tail(b))

\* C17: the end bound built for an empty end key is the namespace followed
\* by 0x01; it sorts strictly after the identifier of every key of the
\* namespace and strictly before every identifier of a namespace that
\* sorts after it.
C17_RangeUpperBound ==
  (ret.op = "GetStateRangeScanIterator" /\ ret.args.endKey = <<>>) =>
    /\ ret.result.end = ret.args.namespace \o <<lastKeyIndicator>>
    /\ \A k \in CodecKeys :
         BytesLess(constructCompositeKey(ret.args.namespace, k), ret.result.end)
    /\ \A ns2 \in CodecNamespaces, k2 \in CodecKeys :
         BytesLess(ret.args.namespace, ns2) =>
           BytesLess(ret.result.end, constructCompositeKey(ns2, k2))

\* The bound of namespace "a", with the namespace "a\x01" sorting after it.
C17_Witness ==
  /\ ret.op = "GetStateRangeScanIterator"
  /\ ret.args.endKey = <<>>
  /\ ret.args.namespace = <<97>>
  /\ ret.result.end = <<97, 1>>
  /\ <<97, 1>> \in CodecNamespaces
  /\ BytesLess(ret.result.end, constructCompositeKey(<<97, 1>>, <<>>))

\* C18: the document and attachments ApplyUpdates builds for a non-nil value
\* and a height unwrap to the same value bytes and an equal height, on the
\* inline path and on the attachment path, and the document carries exactly
\* one of the two.
C18_ValueCodecRoundTrip ==
  ret.op = "BuildCouchDoc" =>
    /\ ~ret.result.panic
    /\ ret.result.Value = ret.args.value
    /\ ret.result.Version = ret.args.height
    /\ (ret.result.doc.JSONValue.data # NilValue)
         # (ret.result.doc.Attachments # NilAttachments)

\* The cache holds ck as resolved-absent: a nil version and an empty
\* revision, as a bulk load leaves a key the store did not return.
NegativeEntry(ck) ==
  /\ ck \in DOMAIN committedData.committedVersions
  /\ committedData.committedVersions[ck] = NilHeight
  /\ ck \in DOMAIN committedData.revisionNumbers
  /\ committedData.revisionNumbers[ck] = EmptyRev

\* The point read the handle is answering found nothing.
AnsweredAbsent ==
  /\ ret.err = NoError
  /\ ~ret.panic
  /\ IF ret.op = "GetState" THEN ret.vals[1].nil ELSE ret.height = NilHeight

\* C19: GetState and GetVersion answer a key the cache holds as
\* resolved-absent with absent and without a read of the store; they read
\* the store only for a key the cache does not hold at all.
C19_NegativeEntriesTrusted ==
  ret.op \in {"GetState", "GetVersion"} =>
    LET ck == [Namespace |-> ret.namespace, Key |-> ret.keys[1]]
    IN  /\ NegativeEntry(ck) => (ret.log = <<>> /\ AnsweredAbsent)
        /\ ret.log # <<>> => ck \notin DOMAIN committedData.committedVersions

\* The callers whose GetDBHandle(dbName) has returned a handle.
Holders(dbName) ==
  {c \in Callers : /\ callers[c].pc = "done"
                   /\ callers[c].dbName = dbName
                   /\ callers[c].err = NoError}

\* C14: with GetDBHandle called concurrently, at most one handle is ever
\* constructed and registered for a name and every call that succeeds for
\* the name returns that handle; a call whose construction fails returns
\* the error and leaves the name unregistered, and a call that finds the
\* name unregistered constructs.
C14_RegistryAtomic ==
  /\ \A i \in 1..Len(handles), j \in 1..Len(handles) :
       handles[i].dbName = handles[j].dbName => i = j
  /\ \A dbName \in DOMAIN databases :
       /\ databases[dbName] \in 1..Len(handles)
       /\ handles[databases[dbName]].dbName = dbName
  /\ \A dbName \in DbNames : \A c \in Holders(dbName) :
       /\ dbName \in DOMAIN databases
       /\ callers[c].vdb = databases[dbName]
  /\ \A c \in Callers :
       /\ (callers[c].pc \in {"return", "done"} /\ callers[c].err # NoError) =>
            /\ callers[c].vdb = NoHandle
            /\ ~callers[c].constructed
       /\ (callers[c].pc = "return" /\ callers[c].err # NoError) =>
            callers[c].dbName \notin DOMAIN databases
       /\ callers[c].pc = "construct" =>
            callers[c].dbName \notin DOMAIN databases
       /\ (callers[c].pc \in {"return", "done"} /\ callers[c].err = NoError
             /\ ~callers[c].constructed) =>
            callers[c].dbName \in DOMAIN databases

\* For one name a construction failed, a later call constructed and
\* registered the handle, and a third call was handed the same handle.
C14_Witness ==
  \E c1 \in Callers, c2 \in Callers, c3 \in Callers :
    /\ callers[c1].pc = "done" /\ callers[c1].err # NoError
    /\ callers[c1].dbName = "ch1"
    /\ c2 \in Holders("ch1") /\ callers[c2].constructed
    /\ c3 \in Holders("ch1") /\ ~callers[c3].constructed
    /\ callers[c3].vdb = callers[c2].vdb

\* C15: over n records, the k-th Next of an iterator returns record k - 1
\* for k <= n, decoded, and end-of-sequence for k > n, never an error,
\* however many Close calls were made and wherever they fell; Close itself
\* returns nothing and so no error.
C15_IteratorContract ==
  scan # EmptyMap =>
    \A k \in 1..Len(scan.returned) :
      /\ scan.returned[k].err = NoError
      /\ IF k <= Len(scan.states)
           THEN scan.returned[k].result =
                  VersionedKV(scan.states[k].Namespace, scan.states[k].Key,
                              scan.states[k].Value, scan.states[k].Version)
           ELSE scan.returned[k].result = NilQueryResult

\* Two records were returned in order, then end-of-sequence twice, with a
\* Close before the end and one after it.
C15_Witness ==
  /\ scan # EmptyMap
  /\ Len(scan.states) = 2
  /\ Len(scan.returned) = 4
  /\ scan.returned[2].result.Key = scan.states[2].Key
  /\ scan.returned[4].result.nil
  /\ scan.closes = 2

\* Document i that unit u submitted was for a key the store held, and went
\* without the revision the store had for it.
StaleSubmission(u, i) ==
  /\ units[u].submitted[i].live
  /\ units[u].submitted[i].rev # units[u].submitted[i].cur

\* C20: two work units interleaved on one handle share its cache, and only
\* that makes an ApplyUpdates lose a revision: a unit submits a document for
\* an existing key without the key's current revision only when the other
\* unit was in a call during its own; the interleaving in which the other
\* unit's clear falls between the load and the build is reachable
\* (C20_Witness).
C20_SharedCache ==
  units # EmptyMap =>
    \A u \in Units :
      /\ units[u].pc = "written" =>
           \A i \in 1..Len(units[u].submitted) :
             StaleSubmission(u, i) => units[u].interfered
      /\ units[u].clearedBetween => units[u].interfered
      /\ (\A v \in Units : units[v].pc = "idle") => committedData = NewCommittedData

\* The other unit's clear fell between the load and the build of an
\* ApplyUpdates, which submitted a document for an existing key with no
\* revision at all; the store refused it.
C20_Witness ==
  /\ units # EmptyMap
  /\ \E u \in Units :
       /\ units[u].pc = "written"
       /\ units[u].clearedBetween
       /\ \E i \in 1..Len(units[u].submitted) :
            /\ units[u].submitted[i].live
            /\ units[u].submitted[i].rev = EmptyRev
            /\ ~units[u].submitted[i].ok

\* The positions of the bulk retrieves among the store calls of the call
\* being answered.
Retrieves == {i \in 1..Len(ret.log) : ret.log[i].call = "BatchRetrieve"}

\* The identifiers of the batch's keys that had no entry in revisionNumbers
\* when the call began.
MissingIds ==
  {constructCompositeKey(ck.Namespace, ck.Key) : ck \in DOMAIN ret.batch \ ret.cachedBefore}

\* C21: ApplyUpdates issues at most one bulk retrieve, without bodies, for
\* exactly the keys of the batch that had no entry in revisionNumbers when
\* the call began, each once, and none when no key is missing; after the
\* load every key of the batch has an entry.
C21_TokenPreload ==
  ret.op = "ApplyUpdates" =>
    /\ Cardinality(Retrieves) <= 1
    /\ Retrieves = {} <=> MissingIds = {}
    /\ \A i \in Retrieves :
         /\ i = 1
         /\ {ret.log[i].ids[j] : j \in 1..Len(ret.log[i].ids)} = MissingIds
         /\ Len(ret.log[i].ids) = Cardinality(MissingIds)
         /\ ret.log[i].docs = <<[includeDocs |-> FALSE]>>
    /\ DOMAIN ret.batch \subseteq ret.tokens

\* A batch on two keys, one of them cached with its revision before the
\* call: only the other was retrieved.
C21_Witness ==
  /\ ret.op = "ApplyUpdates"
  /\ DOMAIN ret.batch = CompositeKeys
  /\ Cardinality(DOMAIN ret.batch \cap ret.cachedBefore) = 1
  /\ Cardinality(Retrieves) = 1
  /\ Len(ret.log[1].ids) = 1
  /\ ret.tokens = CompositeKeys

\* C22: whatever calls were made, committedVersions and revisionNumbers
\* hold the same keys, committedValues holds only keys of theirs, a key's
\* revision is empty exactly when its version is nil, and
\* ClearCachedVersions leaves all three maps empty.
C22_CacheMapAlignment ==
  /\ DOMAIN committedData.committedVersions = DOMAIN committedData.revisionNumbers
  /\ DOMAIN committedData.committedValues \subseteq DOMAIN committedData.committedVersions
  /\ \A ck \in DOMAIN committedData.committedVersions \cap DOMAIN committedData.revisionNumbers :
       committedData.revisionNumbers[ck] = EmptyRev
         <=> committedData.committedVersions[ck] = NilHeight
  /\ ret.op = "ClearCachedVersions" => committedData = NewCommittedData

\* The cache holds one key with its version, revision and value and one
\* key resolved as absent, with no value.
C22_Witness ==
  /\ DOMAIN committedData.committedVersions = CompositeKeys
  /\ DOMAIN committedData.revisionNumbers = CompositeKeys
  /\ Cardinality(DOMAIN committedData.committedValues) = 1
  /\ \E ck \in CompositeKeys :
       /\ committedData.committedVersions[ck] = NilHeight
       /\ committedData.revisionNumbers[ck] = EmptyRev
       /\ ck \notin DOMAIN committedData.committedValues
  /\ \E ck \in DOMAIN committedData.committedValues :
       /\ committedData.committedVersions[ck] # NilHeight
       /\ committedData.revisionNumbers[ck] # EmptyRev

\* The names of the store calls of the call being answered, in order.
CallNames == [i \in 1..Len(ret.log) |-> ret.log[i].call]

\* C23: ApplyUpdates of a batch with no updates makes no bulk retrieve and
\* no bulk write and leaves every data document as it was, but makes the
\* full commit, reads the database info and writes the savepoint for its
\* height as any other; when it succeeds GetLatestSavePoint answers that
\* height.
C23_EmptyBatchSavepoint ==
  (ret.op = "ApplyUpdates" /\ DOMAIN ret.batch = {}) =>
    /\ ~ret.panic
    /\ CallAt(ret.log, "BatchRetrieve") = 0
    /\ CallAt(ret.log, "BatchUpdateDocuments") = 0
    /\ db = ret.dbBefore
    /\ Len(ret.log) >= 1
    /\ CallNames = SubSeq(<<"EnsureFullCommit", "GetDatabaseInfo", "SaveDoc">>,
                          1, Len(ret.log))
    /\ ret.err = NoError =>
         /\ Len(ret.log) = 3
         /\ \A i \in 1..Len(ret.log) : ret.log[i].ok
         /\ GetLatestSavePoint(savepoint, FALSE)
              = [err |-> NoError, height |-> ret.height]

\* An empty batch applied at (10,2) over a store that holds a document and
\* the savepoint of (1,0): the documents are as before and the savepoint
\* reads (10,2).
C23_Witness ==
  /\ ret.op = "ApplyUpdates"
  /\ DOMAIN ret.batch = {}
  /\ ret.err = NoError
  /\ \E id \in Ids : db[id].live
  /\ GetLatestSavePoint(ret.savepointBefore, FALSE).height = [BlockNum |-> 1, TxNum |-> 0]
  /\ ret.height = [BlockNum |-> 10, TxNum |-> 2]
  /\ GetLatestSavePoint(savepoint, FALSE).height = ret.height

====
